---- MODULE Spec2Model ----
(***************************************************************************)
(* Model of the metrics / attribution computation layer of the marketing   *)
(* dashboard: data_processing.py, metrics_calculator.py and the KPI,       *)
(* attribution and trend code embedded in the dashboard pages.             *)
(*                                                                         *)
(* A pandas DataFrame is a record [cols, rows]: the set of column names    *)
(* and the sequence of rows, each row a function from column name to a     *)
(* float.  A float is a record [k, n, d]: k = "num" for the finite value   *)
(* n/d (kept in lowest terms, d > 0), k = "nan", "inf" or "ninf" for the   *)
(* IEEE special values.  Rounding is not modelled: finite arithmetic is    *)
(* exact rational arithmetic.                                              *)
(***************************************************************************)
EXTENDS Integers, Sequences, FiniteSets, TLC

VARIABLES df, df_in, ret, pc

vars == <<df, df_in, ret, pc>>

----------------------------------------------------------------------------
(* Floats *)

RECURSIVE GCD(_, _)
GCD(a, b) == IF b = 0 THEN a ELSE GCD(b, a % b)

IAbs(i) == IF i < 0 THEN -i ELSE i

NaN == [k |-> "nan", n |-> 0, d |-> 1]

PosInf == [k |-> "inf", n |-> 0, d |-> 1]

NegInf == [k |-> "ninf", n |-> 0, d |-> 1]

\* n/d in lowest terms, for d # 0
Q(n, d) ==
    LET s == IF d < 0 THEN -1 ELSE 1
        g == GCD(IAbs(n), IAbs(d))
    IN  [k |-> "num", n |-> (s * n) \div g, d |-> (s * d) \div g]

F(i) == [k |-> "num", n |-> i, d |-> 1]

IsNaN(x) == x.k = "nan"

IsFinite(x) == x.k = "num"

\* sign of a non-NaN float: -1, 0 or 1
Sign(x) ==
    CASE x.k = "inf" -> 1
      [] x.k = "ninf" -> -1
      [] OTHER -> IF x.n > 0 THEN 1 ELSE IF x.n < 0 THEN -1 ELSE 0

Signed(s) == IF s > 0 THEN PosInf ELSE IF s < 0 THEN NegInf ELSE NaN

FNeg(x) ==
    CASE x.k = "nan" -> NaN
      [] x.k = "inf" -> NegInf
      [] x.k = "ninf" -> PosInf
      [] OTHER -> Q(-x.n, x.d)

FAdd(x, y) ==
    CASE IsNaN(x) \/ IsNaN(y) -> NaN
      [] IsFinite(x) /\ IsFinite(y) -> Q(x.n * y.d + y.n * x.d, x.d * y.d)
      [] IsFinite(x) -> y
      [] IsFinite(y) -> x
      [] OTHER -> IF x.k = y.k THEN x ELSE NaN

FSub(x, y) == FAdd(x, FNeg(y))

FMul(x, y) ==
    CASE IsNaN(x) \/ IsNaN(y) -> NaN
      [] IsFinite(x) /\ IsFinite(y) -> Q(x.n * y.n, x.d * y.d)
      [] OTHER -> Signed(Sign(x) * Sign(y))

\* IEEE division as numpy performs it: x/0 is an infinity, 0/0 is NaN
FDiv(x, y) ==
    CASE IsNaN(x) \/ IsNaN(y) -> NaN
      [] IsFinite(x) /\ IsFinite(y) ->
            IF y.n = 0 THEN Signed(Sign(x)) ELSE Q(x.n * y.d, x.d * y.n)
      [] IsFinite(x) -> F(0)
      [] IsFinite(y) -> Signed(Sign(x) * (IF Sign(y) < 0 THEN -1 ELSE 1))
      [] OTHER -> NaN

\* comparisons: every comparison with NaN is false
FLt(x, y) ==
    /\ ~IsNaN(x)
    /\ ~IsNaN(y)
    /\ CASE IsFinite(x) /\ IsFinite(y) -> x.n * y.d < y.n * x.d
         [] OTHER -> x.k # y.k /\ (x.k = "ninf" \/ y.k = "inf")

FGt(x, y) == FLt(y, x)

FLe(x, y) == ~IsNaN(x) /\ ~IsNaN(y) /\ ~FLt(y, x)

FAbs(x) == IF ~IsNaN(x) /\ Sign(x) < 0 THEN FNeg(x) ELSE x

----------------------------------------------------------------------------
(* Series and DataFrame primitives *)

Has(t, c) == c \in t.cols

\* df[c] as a sequence of floats
Col(t, c) == [i \in 1..Len(t.rows) |-> t.rows[i][c]]

RECURSIVE SeqSum(_)
SeqSum(s) ==
    IF s = <<>> THEN F(0)
    ELSE IF IsNaN(Head(s)) THEN SeqSum(Tail(s))
    ELSE FAdd(Head(s), SeqSum(Tail(s)))

\* Series.sum(): missing values are skipped, the empty sum is 0
Sum(t, c) == SeqSum(Col(t, c))

Count(s) == Cardinality({i \in 1..Len(s) : ~IsNaN(s[i])})

\* Series.mean(): missing values are skipped, NaN when nothing is left
SeqMean(s) == IF Count(s) = 0 THEN NaN ELSE FDiv(SeqSum(s), F(Count(s)))

Mean(t, c) == SeqMean(Col(t, c))

\* df[c] = values (adds the column when absent)
SetCol(t, c, vals) ==
    [cols |-> t.cols \cup {c},
     rows |-> [i \in 1..Len(t.rows) |->
                 [x \in t.cols \cup {c} |-> IF x = c THEN vals[i] ELSE t.rows[i][x]]]]

\* df[mask]
RECURSIVE SelectRows(_, _)
SelectRows(rows, keep) ==
    IF rows = <<>> THEN <<>>
    ELSE (IF keep[1] THEN <<Head(rows)>> ELSE <<>>)
         \o SelectRows(Tail(rows), Tail(keep))

\* the division without its "den > 0" guard
WhereRatioUnguarded(num, den) == [i \in 1..Len(num) |-> FDiv(num[i], den[i])]

\* np.where(den > 0, num / den, 0), row by row
WhereRatio(num, den) ==
    [i \in 1..Len(num) |-> IF FGt(den[i], F(0)) THEN FDiv(num[i], den[i]) ELSE F(0)]

RECURSIVE InsertByDate(_, _)
InsertByDate(r, sorted) ==
    IF sorted = <<>> THEN <<r>>
    ELSE IF FLt(r["date"], Head(sorted)["date"])
         THEN <<r>> \o sorted
         ELSE <<Head(sorted)>> \o InsertByDate(r, Tail(sorted))

RECURSIVE SortRows(_)
SortRows(rows) ==
    IF rows = <<>> THEN <<>>
    ELSE InsertByDate(rows[Len(rows)], SortRows(SubSeq(rows, 1, Len(rows) - 1)))

\* df.sort_values('date'): rows with equal dates keep their input order
\* (numpy's quicksort is an insertion sort below 17 elements)
SortValues(t) == [cols |-> t.cols, rows |-> SortRows(t.rows)]

\* Series.rolling(window=7, min_periods=1).mean()
RollingWindow == 7

\* rolling(window=7) with the default min_periods: no value before the
\* window is full
RollingFullWindow(s) ==
    [i \in 1..Len(s) |->
        IF i < RollingWindow THEN NaN
        ELSE SeqMean(SubSeq(s, i - RollingWindow + 1, i))]

Rolling(s) ==
    [i \in 1..Len(s) |->
        SeqMean(SubSeq(s, IF i - RollingWindow + 1 > 1 THEN i - RollingWindow + 1 ELSE 1, i))]

----------------------------------------------------------------------------
(* data_processing.py *)

Platforms == <<"facebook", "google", "tiktok">>

SpendCol(p) ==
    CASE p = "facebook" -> "facebook_spend"
      [] p = "google" -> "google_spend"
      [] OTHER -> "tiktok_spend"

RevenueCol(p) ==
    CASE p = "facebook" -> "facebook_attributed revenue"
      [] p = "google" -> "google_attributed revenue"
      [] OTHER -> "tiktok_attributed revenue"

ClicksCol(p) ==
    CASE p = "facebook" -> "facebook_clicks"
      [] p = "google" -> "google_clicks"
      [] OTHER -> "tiktok_clicks"

ImpressionCol(p) ==
    CASE p = "facebook" -> "facebook_impression"
      [] p = "google" -> "google_impression"
      [] OTHER -> "tiktok_impression"

\* df.rename(columns=column_mapping)
column_mapping(c) ==
    CASE c = "# of orders" -> "orders"
      [] c = "# of new orders" -> "new_orders"
      [] c = "total revenue" -> "total_revenue"
      [] c = "gross profit" -> "gross_profit"
      [] c = "attributed revenue" -> "attributed_revenue"
      [] OTHER -> c

RenameOld(t, c) == CHOOSE o \in t.cols : column_mapping(o) = c

Rename(t) ==
    LET newcols == {column_mapping(c) : c \in t.cols}
    IN  [cols |-> newcols,
         rows |-> [i \in 1..Len(t.rows) |->
                     [c \in newcols |-> t.rows[i][RenameOld(t, c)]]]]

\* select_dtypes(include=[np.number]): every column but the date
numeric_columns(t) == t.cols \ {"date"}

\* fillna(0) applied to the financial columns only
FillNaFinancial(t) ==
    [cols |-> t.cols,
     rows |-> [i \in 1..Len(t.rows) |->
                 [c \in t.cols |->
                     IF c \in {"total_revenue", "spend", "attributed_revenue"}
                        /\ IsNaN(t.rows[i][c])
                     THEN F(0) ELSE t.rows[i][c]]]]

\* df[numeric_columns] = df[numeric_columns].fillna(0)
FillNa(t) ==
    [cols |-> t.cols,
     rows |-> [i \in 1..Len(t.rows) |->
                 [c \in t.cols |->
                     IF c \in numeric_columns(t) /\ IsNaN(t.rows[i][c])
                     THEN F(0) ELSE t.rows[i][c]]]]

financial_columns ==
    {"total_revenue", "gross_profit", "COGS", "spend",
     "facebook_spend", "google_spend", "tiktok_spend",
     "attributed_revenue", "facebook_attributed revenue",
     "google_attributed revenue", "tiktok_attributed revenue"}

\* Series.clip(upper=0) in place of clip(lower=0)
ClipUpper(x) == IF FGt(x, F(0)) THEN F(0) ELSE x

\* Series.clip(lower=0): NaN stays NaN
ClipLower(x) == IF FLt(x, F(0)) THEN F(0) ELSE x

\* clipping applied to every numeric column instead of the financial ones
ClipEveryColumn(t) ==
    [cols |-> t.cols,
     rows |-> [i \in 1..Len(t.rows) |->
                 [c \in t.cols |->
                     IF c # "date" THEN ClipLower(t.rows[i][c]) ELSE t.rows[i][c]]]]

ClipFinancial(t) ==
    [cols |-> t.cols,
     rows |-> [i \in 1..Len(t.rows) |->
                 [c \in t.cols |->
                     IF c \in financial_columns
                     THEN ClipLower(t.rows[i][c]) ELSE t.rows[i][c]]]]

Sq(x) == FMul(x, x)

\* the population variance (ddof = 0) in place of Series.std() squared
VarPopulation(s) ==
    LET m == SeqMean(s)
        dev == [i \in 1..Len(s) |-> IF IsNaN(s[i]) THEN NaN ELSE Sq(FSub(s[i], m))]
    IN  IF Count(s) < 1 THEN NaN ELSE FDiv(SeqSum(dev), F(Count(s)))

\* Series.std() squared: the sample variance (ddof = 1) over the values
\* present, NaN when fewer than two values are present
Var(s) ==
    LET m == SeqMean(s)
        dev == [i \in 1..Len(s) |-> IF IsNaN(s[i]) THEN NaN ELSE Sq(FSub(s[i], m))]
    IN  IF Count(s) < 2 THEN NaN ELSE FDiv(SeqSum(dev), F(Count(s) - 1))

\* the filter at two standard deviations
WithinTwoStd(x, mean_val, var_val) ==
    FLe(Sq(FAbs(FSub(x, mean_val))), FMul(F(4), var_val))

\* abs(x - mean_val) <= 3 * std_val, compared on the squares
WithinThreeStd(x, mean_val, var_val) ==
    FLe(Sq(FAbs(FSub(x, mean_val))), FMul(F(9), var_val))

\* utils.detect_outliers(series, threshold=3): the mask
\* abs((series - mean) / std) > threshold, compared on the squares
detect_outliers(s) ==
    LET mean_val == SeqMean(s)
        var_val == Var(s)
    IN  [i \in 1..Len(s) |->
            FGt(FDiv(Sq(FAbs(FSub(s[i], mean_val))), var_val), F(9))]

\* df = df[abs(df[col] - mean_val) <= 3 * std_val] when col is a column
RemoveOutliers(t, c) ==
    IF ~Has(t, c) THEN t
    ELSE LET s == Col(t, c)
             mean_val == SeqMean(s)
             var_val == Var(s)
         IN  [cols |-> t.cols,
              rows |-> SelectRows(t.rows,
                          [i \in 1..Len(s) |-> WithinThreeStd(s[i], mean_val, var_val)])]

RoasTolerance == Q(1, 10)

\* roas_diff.max() > 0.1
RoasMismatch(t) ==
    /\ Has(t, "marketing_roas")
    /\ \E i \in 1..Len(t.rows) :
          FGt(FAbs(FSub(t.rows[i]["marketing_roas"],
                        t.rows[i]["calculated_marketing_roas"])), RoasTolerance)

\* validate_and_clean_data(df) with the ROAS cross-check raising on a mismatch
validate_and_clean_data_strict(t) ==
    LET clipped == ClipFinancial(FillNa(t))
    IN  IF ~({"spend", "attributed_revenue"} \subseteq t.cols)
        THEN [op |-> "validate_and_clean_data", err |-> "KeyError",
              inplace |-> clipped, tbl |-> clipped, warned |-> FALSE]
        ELSE LET withRoas == SetCol(clipped, "calculated_marketing_roas",
                                WhereRatio(Col(clipped, "attributed_revenue"),
                                           Col(clipped, "spend")))
                 f1 == RemoveOutliers(withRoas, "marketing_roas")
                 f2 == RemoveOutliers(f1, "total_revenue")
                 f3 == RemoveOutliers(f2, "orders")
             IN  IF RoasMismatch(withRoas)
                 THEN [op |-> "validate_and_clean_data", err |-> "ValueError",
                       inplace |-> withRoas, tbl |-> withRoas, warned |-> TRUE]
                 ELSE [op |-> "validate_and_clean_data", err |-> "none",
                       inplace |-> withRoas, tbl |-> f3, warned |-> FALSE]

\* validate_and_clean_data(df): inplace is what the call leaves in the
\* caller's table, tbl is the returned table
validate_and_clean_data(t) ==
    LET clipped == ClipFinancial(FillNa(t))
    IN  IF ~({"spend", "attributed_revenue"} \subseteq t.cols)
        THEN [op |-> "validate_and_clean_data", err |-> "KeyError",
              inplace |-> clipped, tbl |-> clipped, warned |-> FALSE]
        ELSE LET withRoas == SetCol(clipped, "calculated_marketing_roas",
                                WhereRatio(Col(clipped, "attributed_revenue"),
                                           Col(clipped, "spend")))
                 f1 == RemoveOutliers(withRoas, "marketing_roas")
                 f2 == RemoveOutliers(f1, "total_revenue")
                 f3 == RemoveOutliers(f2, "orders")
             IN  [op |-> "validate_and_clean_data", err |-> "none",
                  inplace |-> withRoas, tbl |-> f3, warned |-> RoasMismatch(withRoas)]

\* one df[name] = np.where(df[den] > 0, df[num] / df[den], 0) statement of a
\* function that stops at the first missing column
AddRatio(st, name, num, den) ==
    IF st.err # "none" THEN st
    ELSE IF ~({num, den} \subseteq st.t.cols) THEN [t |-> st.t, err |-> "KeyError"]
    ELSE [t |-> SetCol(st.t, name, WhereRatio(Col(st.t, num), Col(st.t, den))),
          err |-> "none"]

\* the same statement under "if num in df.columns and den in df.columns"
AddRatioIfPresent(st, name, num, den) ==
    IF {num, den} \subseteq st.t.cols THEN AddRatio(st, name, num, den) ELSE st

CtrCol(p) ==
    CASE p = "facebook" -> "facebook_ctr"
      [] p = "google" -> "google_ctr"
      [] OTHER -> "tiktok_ctr"

CpcCol(p) ==
    CASE p = "facebook" -> "facebook_cpc"
      [] p = "google" -> "google_cpc"
      [] OTHER -> "tiktok_cpc"

RoasCol(p) ==
    CASE p = "facebook" -> "facebook_roas"
      [] p = "google" -> "google_roas"
      [] OTHER -> "tiktok_roas"

PlatformRatios(st, kind) ==
    LET step(s, p) ==
          CASE kind = "ctr" -> AddRatioIfPresent(s, CtrCol(p), ClicksCol(p), ImpressionCol(p))
            [] kind = "cpc" -> AddRatioIfPresent(s, CpcCol(p), SpendCol(p), ClicksCol(p))
            [] OTHER -> AddRatioIfPresent(s, RoasCol(p), RevenueCol(p), SpendCol(p))
    IN  step(step(step(st, Platforms[1]), Platforms[2]), Platforms[3])

\* the calendar columns with the month written over the date column
AddCalendarOverDate(st) ==
    IF st.err # "none" THEN st
    ELSE IF ~Has(st.t, "date") THEN [t |-> st.t, err |-> "KeyError"]
    ELSE LET d == [i \in 1..Len(st.t.rows) |-> st.t.rows[i]["date"].n]
             dow == [i \in 1..Len(d) |-> F((d[i] - 1) % 7)]
             week == [i \in 1..Len(d) |-> F(((d[i] - 1) \div 7) + 1)]
             month == [i \in 1..Len(d) |-> F(1)]
         IN  [t |-> SetCol(SetCol(SetCol(st.t, "day_of_week", dow),
                                  "week_number", week), "date", month),
              err |-> "none"]

\* the calendar columns; day 1 is Monday 2024-01-01 and days stay in January
AddCalendar(st) ==
    IF st.err # "none" THEN st
    ELSE IF ~Has(st.t, "date") THEN [t |-> st.t, err |-> "KeyError"]
    ELSE LET d == [i \in 1..Len(st.t.rows) |-> st.t.rows[i]["date"].n]
             dow == [i \in 1..Len(d) |-> F((d[i] - 1) % 7)]
             week == [i \in 1..Len(d) |-> F(((d[i] - 1) \div 7) + 1)]
             month == [i \in 1..Len(d) |-> F(1)]
         IN  [t |-> SetCol(SetCol(SetCol(st.t, "day_of_week", dow),
                                  "week_number", week), "month", month),
              err |-> "none"]

\* df[name] = df[src].rolling(window=7, min_periods=1).mean()
AddRolling(st, name, src) ==
    IF st.err # "none" THEN st
    ELSE IF ~Has(st.t, src) THEN [t |-> st.t, err |-> "KeyError"]
    ELSE [t |-> SetCol(st.t, name, Rolling(Col(st.t, src))), err |-> "none"]

\* calculate_derived_metrics(df): inplace is what the call leaves in the
\* caller's table, tbl is the returned (sorted) table
calculate_derived_metrics(t) ==
    LET s0 == [t |-> t, err |-> "none"]
        s1 == AddRatio(s0, "cac", "spend", "new customers")
        s2 == AddRatio(s1, "aov", "total_revenue", "orders")
        s3 == AddRatio(s2, "ctr", "clicks", "impression")
        s4 == AddRatio(s3, "cpc", "spend", "clicks")
        s5 == AddRatio(s4, "conversion_rate", "orders", "clicks")
        s6 == PlatformRatios(PlatformRatios(PlatformRatios(s5, "ctr"), "cpc"), "roas")
        s7 == AddRatio(s6, "revenue_per_impression", "total_revenue", "impression")
        s8 == AddCalendar(s7)
        sorted == IF s8.err # "none" THEN s8
                  ELSE [t |-> SortValues(s8.t), err |-> "none"]
        m1 == AddRolling(sorted, "revenue_7d_ma", "total_revenue")
        m2 == AddRolling(m1, "roas_7d_ma", "marketing_roas")
        m3 == AddRolling(m2, "orders_7d_ma", "orders")
    IN  [op |-> "calculate_derived_metrics", err |-> m3.err,
         inplace |-> s8.t, tbl |-> m3.t, warned |-> FALSE]

----------------------------------------------------------------------------
(* KPI aggregation: metrics_calculator.py, pages/Overview.py, DashBoard.py *)

\* the first half cut at the midpoint rounded up
FirstHalfCeil(t) ==
    LET sorted == SortValues(t)
    IN  [cols |-> t.cols,
         rows |-> SubSeq(sorted.rows, 1, (Len(sorted.rows) + 1) \div 2)]

\* df_sorted.iloc[:mid_point] and df_sorted.iloc[mid_point:]
FirstHalf(t) ==
    LET sorted == SortValues(t)
    IN  [cols |-> t.cols, rows |-> SubSeq(sorted.rows, 1, Len(sorted.rows) \div 2)]

SecondHalf(t) ==
    LET sorted == SortValues(t)
    IN  [cols |-> t.cols,
         rows |-> SubSeq(sorted.rows, (Len(sorted.rows) \div 2) + 1, Len(sorted.rows))]

\* the growth formula without its "first > 0" guard
GrowthRateUnguarded(second, first) ==
    FMul(FDiv(FSub(second, first), first), F(100))

\* growth measured against the second half instead of the first
GrowthRateOverSecond(second, first) ==
    IF FGt(first, F(0))
    THEN FMul(FDiv(FSub(second, first), second), F(100))
    ELSE F(0)

\* ((second - first) / first * 100) if first > 0 else 0
GrowthRate(second, first) ==
    IF FGt(first, F(0))
    THEN FMul(FDiv(FSub(second, first), first), F(100))
    ELSE F(0)

\* a / b without the "b > 0" guard
UnguardedDiv(a, b) == FDiv(a, b)

\* a / b if b > 0 else 0
GuardedDiv(a, b) == IF FGt(b, F(0)) THEN FDiv(a, b) ELSE F(0)

KeyError(name) == [op |-> name, err |-> "KeyError"]

\* metrics_calculator.calculate_kpis(df)
calculate_kpis(t) ==
    LET revenue_col == IF Has(t, "total_revenue") THEN "total_revenue" ELSE "total revenue"
        orders_col == IF Has(t, "orders") THEN "orders" ELSE "# of orders"
        needed == {revenue_col, orders_col, "spend", "date", "marketing_roas",
                   "profit_margin", "new customers", "attributed revenue",
                   "attribution_rate"}
        first_half == FirstHalf(t)
        second_half == SecondHalf(t)
        total_revenue == Sum(t, revenue_col)
        total_orders == Sum(t, orders_col)
        total_spend == Sum(t, "spend")
        total_new_customers == Sum(t, "new customers")
        avg_aov == GuardedDiv(total_revenue, total_orders)
    IN  IF ~(needed \subseteq t.cols) THEN KeyError("calculate_kpis")
        ELSE [op |-> "calculate_kpis", err |-> "none",
              total_revenue |-> total_revenue,
              total_orders |-> total_orders,
              total_spend |-> total_spend,
              total_new_customers |-> total_new_customers,
              avg_aov |-> avg_aov,
              avg_roas |-> Mean(t, "marketing_roas"),
              avg_profit_margin |-> Mean(t, "profit_margin"),
              attribution_rate |-> Mean(t, "attribution_rate"),
              total_attributed_revenue |-> Sum(t, "attributed revenue"),
              revenue_growth |-> GrowthRate(Sum(second_half, revenue_col),
                                            Sum(first_half, revenue_col)),
              order_growth |-> GrowthRate(Sum(second_half, orders_col),
                                          Sum(first_half, orders_col)),
              roas_trend |-> FSub(Mean(second_half, "marketing_roas"),
                                  Mean(first_half, "marketing_roas")),
              margin_trend |-> FSub(Mean(second_half, "profit_margin"),
                                    Mean(first_half, "profit_margin")),
              cac |-> GuardedDiv(total_spend, total_new_customers),
              ltv_cac_ratio |->
                  IF FGt(total_new_customers, F(0))
                  THEN FDiv(FMul(avg_aov, F(3)), FDiv(total_spend, total_new_customers))
                  ELSE F(0)]

\* pages/Overview.py calculate_kpis(df)
overview_calculate_kpis(t) ==
    LET revenue_col == IF Has(t, "total revenue") THEN "total revenue" ELSE "total_revenue"
        orders_col == IF Has(t, "# of orders") THEN "# of orders" ELSE "orders"
        needed == {revenue_col, orders_col, "spend", "date", "marketing_roas",
                   "profit_margin", "attribution_rate"}
        first_half == FirstHalf(t)
        second_half == SecondHalf(t)
    IN  IF ~(needed \subseteq t.cols) THEN KeyError("overview_calculate_kpis")
        ELSE [op |-> "overview_calculate_kpis", err |-> "none",
              total_revenue |-> Sum(t, revenue_col),
              total_orders |-> Sum(t, orders_col),
              avg_roas |-> Mean(t, "marketing_roas"),
              avg_profit_margin |-> Mean(t, "profit_margin"),
              revenue_growth |-> GrowthRate(Sum(second_half, revenue_col),
                                            Sum(first_half, revenue_col)),
              order_growth |-> GrowthRate(Sum(second_half, orders_col),
                                          Sum(first_half, orders_col)),
              roas_trend |-> FSub(Mean(second_half, "marketing_roas"),
                                  Mean(first_half, "marketing_roas")),
              margin_trend |-> FSub(Mean(second_half, "profit_margin"),
                                    Mean(first_half, "profit_margin")),
              total_spend |-> Sum(t, "spend"),
              attribution_rate |-> Mean(t, "attribution_rate")]

\* DashBoard.py calculate_kpis(df)
dashboard_calculate_kpis(t) ==
    LET needed == {"total revenue", "# of orders", "new customers", "spend",
                   "marketing_roas", "profit_margin", "date"}
        first_half == FirstHalf(t)
        second_half == SecondHalf(t)
        total_revenue == Sum(t, "total revenue")
        total_orders == Sum(t, "# of orders")
        total_new_customers == Sum(t, "new customers")
        total_spend == Sum(t, "spend")
    IN  IF ~(needed \subseteq t.cols) THEN KeyError("dashboard_calculate_kpis")
        ELSE [op |-> "dashboard_calculate_kpis", err |-> "none",
              total_revenue |-> total_revenue,
              total_orders |-> total_orders,
              total_new_customers |-> total_new_customers,
              total_spend |-> total_spend,
              avg_roas |-> Mean(t, "marketing_roas"),
              avg_profit_margin |-> Mean(t, "profit_margin"),
              revenue_growth |-> GrowthRate(Sum(second_half, "total revenue"),
                                            Sum(first_half, "total revenue")),
              customer_growth |-> GrowthRate(Sum(second_half, "new customers"),
                                             Sum(first_half, "new customers")),
              cac |-> GuardedDiv(total_spend, total_new_customers),
              aov |-> GuardedDiv(total_revenue, total_orders)]

----------------------------------------------------------------------------
(* Attribution: metrics_calculator.py and pages/Attribution_Analysis.py *)

PlatformSet == {Platforms[i] : i \in 1..Len(Platforms)}

\* total_revenue // 3: floor division in place of true division
LinearShareFloor(total_revenue) ==
    IF IsFinite(total_revenue) THEN F((total_revenue.n \div total_revenue.d) \div 3)
    ELSE total_revenue

\* total_revenue / 3
LinearShare(total_revenue) == FDiv(total_revenue, F(3))

\* the share with revenue and spend totals exchanged
SpendShareSwapped(spend, total_spend, total_revenue) ==
    FMul(FDiv(spend, total_revenue), total_spend)

\* (platform_spend / total_spend) * total_revenue
SpendShare(spend, total_spend, total_revenue) ==
    FMul(FDiv(spend, total_spend), total_revenue)

\* metrics_calculator.calculate_attribution_model(df)
calculate_attribution_model(t) ==
    LET revenue_col == IF Has(t, "total_revenue") THEN "total_revenue" ELSE "total revenue"
        needed == {revenue_col} \cup {RevenueCol(p) : p \in PlatformSet}
                                \cup {SpendCol(p) : p \in PlatformSet}
        total_spend == FAdd(FAdd(Sum(t, "facebook_spend"), Sum(t, "google_spend")),
                            Sum(t, "tiktok_spend"))
        total_revenue == Sum(t, revenue_col)
    IN  IF ~(needed \subseteq t.cols) THEN KeyError("calculate_attribution_model")
        ELSE [op |-> "calculate_attribution_model", err |-> "none",
              total_revenue |-> total_revenue,
              last_click |-> [p \in PlatformSet |-> Sum(t, RevenueCol(p))],
              spend_based |-> [p \in PlatformSet |->
                                 IF FGt(total_spend, F(0))
                                 THEN SpendShare(Sum(t, SpendCol(p)), total_spend,
                                                 total_revenue)
                                 ELSE F(0)],
              linear |-> [p \in PlatformSet |-> LinearShare(total_revenue)]]

\* the column names smart_column_finder accepts as the total revenue column:
\* 'total' and 'revenue' occur in the lower-cased name, or the name is 'revenue'
TotalRevenueNames == {"total revenue", "total_revenue", "revenue"}

\* smart_column_finder(df): the keys it found, each with the column it maps
\* to; a platform's revenue column is the one carrying the platform name and
\* 'revenue', its spend column the one carrying the platform name and 'spend'
smart_column_finder(t) ==
    LET found == {c \in t.cols : c \in TotalRevenueNames}
    IN  [total_revenue |-> IF found = {} THEN "" ELSE CHOOSE c \in found : TRUE,
         attributed_revenue |-> [p \in PlatformSet |->
                                   IF Has(t, RevenueCol(p)) THEN RevenueCol(p) ELSE ""],
         spend |-> [p \in PlatformSet |-> IF Has(t, SpendCol(p)) THEN SpendCol(p) ELSE ""]]

\* str.title() of the platform names
Title(p) ==
    CASE p = "facebook" -> "Facebook"
      [] p = "google" -> "Google"
      [] OTHER -> "Tiktok"

Untitle(k) == CHOOSE p \in PlatformSet : Title(p) = k

\* np.linspace(-2, 0, n)[i - 1]
Linspace(i, n) == IF n = 1 THEN F(-2) ELSE FAdd(F(-2), Q(2 * (i - 1), n - 1))

\* (df_sorted[attr_col] * np.exp(np.linspace(-2, 0, n))).sum(), kept as the
\* terms c * exp(e) of the sum with c present and nonzero; the sum is 0
\* exactly when no term is left
RECURSIVE DecayTerms(_, _, _)
DecayTerms(s, i, n) ==
    IF i > n THEN <<>>
    ELSE (IF IsNaN(s[i]) \/ s[i] = F(0) THEN <<>>
          ELSE <<[c |-> s[i], e |-> Linspace(i, n)]>>)
         \o DecayTerms(s, i + 1, n)

TimeDecay(t, c) ==
    LET s == Col(SortValues(t), c)
    IN  DecayTerms(s, 1, Len(s))

\* pages/Attribution_Analysis.py calculate_attribution_models_smart(df, column_mapping)
calculate_attribution_models_smart(t, cm) ==
    LET titles == {Title(p) : p \in PlatformSet}
        total_revenue == Sum(t, cm.total_revenue)
        spends == {p \in PlatformSet : cm.spend[p] # ""}
        total_spend == SeqSum([i \in 1..Len(Platforms) |->
                          IF Platforms[i] \in spends
                          THEN Sum(t, cm.spend[Platforms[i]]) ELSE F(0)])
    IN  IF cm.total_revenue = ""
        THEN [op |-> "calculate_attribution_models_smart", err |-> "returned_none"]
        ELSE IF ~Has(t, "date") /\ \E p \in PlatformSet : cm.attributed_revenue[p] # ""
        THEN KeyError("calculate_attribution_models_smart")
        ELSE [op |-> "calculate_attribution_models_smart", err |-> "none",
              total_revenue |-> total_revenue,
              last_click |-> [k \in titles |->
                                IF cm.attributed_revenue[Untitle(k)] # ""
                                THEN Sum(t, cm.attributed_revenue[Untitle(k)])
                                ELSE F(0)],
              time_decay |-> [k \in titles |->
                                IF cm.attributed_revenue[Untitle(k)] # ""
                                THEN TimeDecay(t, cm.attributed_revenue[Untitle(k)])
                                ELSE <<>>],
              spend_based |-> [k \in titles |->
                                 IF cm.spend[Untitle(k)] # "" /\ FGt(total_spend, F(0))
                                 THEN SpendShare(Sum(t, cm.spend[Untitle(k)]),
                                                 total_spend, total_revenue)
                                 ELSE F(0)],
              linear |-> [k \in {"Facebook", "Google", "TikTok"} |->
                            LinearShare(total_revenue)]]

----------------------------------------------------------------------------
(* Trend direction: pages/Trends_Insights.py *)

\* np.mean(y): NaN as soon as one value is missing
NpMean(y) ==
    IF \E i \in 1..Len(y) : IsNaN(y[i]) THEN NaN
    ELSE FDiv(SeqSum(y), F(Len(y)))

RECURSIVE SumTo(_, _)
SumTo(f, n) == IF n = 0 THEN F(0) ELSE FAdd(f[n], SumTo(f, n - 1))

\* LinearRegression().fit(x, y).coef_[0] for x = 0 .. len(y) - 1: the least
\* squares slope
OlsSlope(y) ==
    LET n == Len(y)
        xbar == Q(n - 1, 2)
        ybar == NpMean(y)
        sxy == SumTo([i \in 1..n |-> FMul(FSub(F(i - 1), xbar), FSub(y[i], ybar))], n)
        sxx == SumTo([i \in 1..n |-> Sq(FSub(F(i - 1), xbar))], n)
    IN  FDiv(sxy, sxx)

\* (y[-1] - y[0]) / len(y)
EndpointSlope(y) == FDiv(FSub(y[Len(y)], y[1]), F(Len(y)))

OnePercent == Q(1, 100)

\* the three-way classification both branches share
Classify(slope, y) ==
    IF FLt(FAbs(slope), FMul(OnePercent, NpMean(y))) THEN "stable"
    ELSE IF FGt(slope, F(0)) THEN "increasing"
    ELSE "decreasing"

\* calculate_trend_direction(series); sklearn tells whether scikit-learn
\* could be imported, and its fit raises on a missing value
calculate_trend_direction(y, sklearn) ==
    IF Len(y) < 2
    THEN [op |-> "calculate_trend_direction", err |-> "none", series |-> y,
          direction |-> "stable", slope |-> F(0)]
    ELSE IF sklearn /\ \E i \in 1..Len(y) : ~IsFinite(y[i])
    THEN [op |-> "calculate_trend_direction", err |-> "none", series |-> y,
          direction |-> "stable", slope |-> F(0)]
    ELSE LET slope == IF sklearn THEN OlsSlope(y) ELSE EndpointSlope(y)
         IN  [op |-> "calculate_trend_direction", err |-> "none", series |-> y,
              direction |-> Classify(slope, y), slope |-> slope]

----------------------------------------------------------------------------
(* Platform, efficiency, daily, cohort and seasonality metrics:            *)
(* metrics_calculator.py, pages/Marketing_Performance.py and               *)
(* pages/Revenue_Analysis.py                                               *)

\* platforms = ['Facebook', 'Google', 'TikTok']
PlatformNames == {"Facebook", "Google", "TikTok"}

\* platform.lower()
Lower(platform) ==
    CASE platform = "Facebook" -> "facebook"
      [] platform = "Google" -> "google"
      [] OTHER -> "tiktok"

\* df[col].sum() if col in df.columns else 0
SumIfPresent(t, c) == IF Has(t, c) THEN Sum(t, c) ELSE F(0)

\* metrics_calculator.calculate_platform_metrics(df, platforms)
calculate_platform_metrics(t, platforms) ==
    LET needed == {RevenueCol(p) : p \in PlatformSet} \cup {"spend"}
        total_attributed == FAdd(FAdd(Sum(t, "facebook_attributed revenue"),
                                      Sum(t, "google_attributed revenue")),
                                 Sum(t, "tiktok_attributed revenue"))
        entry(platform) ==
            LET total_spend == SumIfPresent(t, SpendCol(Lower(platform)))
                total_revenue == SumIfPresent(t, RevenueCol(Lower(platform)))
                total_clicks == SumIfPresent(t, ClicksCol(Lower(platform)))
                total_impressions == SumIfPresent(t, ImpressionCol(Lower(platform)))
                revenue_share ==
                    IF FGt(total_attributed, F(0))
                    THEN FMul(FDiv(total_revenue, total_attributed), F(100))
                    ELSE F(0)
                spend_share ==
                    IF FGt(Sum(t, "spend"), F(0))
                    THEN FMul(FDiv(total_spend, Sum(t, "spend")), F(100))
                    ELSE F(0)
            IN  [total_spend |-> total_spend,
                 total_revenue |-> total_revenue,
                 total_clicks |-> total_clicks,
                 total_impressions |-> total_impressions,
                 roas |-> GuardedDiv(total_revenue, total_spend),
                 ctr |-> GuardedDiv(total_clicks, total_impressions),
                 cpc |-> GuardedDiv(total_spend, total_clicks),
                 cpm |-> IF FGt(total_impressions, F(0))
                         THEN FMul(FDiv(total_spend, total_impressions), F(1000))
                         ELSE F(0),
                 revenue_share |-> revenue_share,
                 spend_share |-> spend_share,
                 efficiency_ratio |-> GuardedDiv(revenue_share, spend_share)]
    IN  IF platforms # {} /\ ~(needed \subseteq t.cols)
        THEN KeyError("calculate_platform_metrics")
        ELSE [op |-> "calculate_platform_metrics", err |-> "none",
              metrics |-> [platform \in platforms |-> entry(platform)]]

\* pages/Marketing_Performance.py calculate_platform_metrics(df, platforms);
\* the entries are keyed by the lower-case name
marketing_calculate_platform_metrics(t, platforms) ==
    LET needed == {SpendCol(Lower(p)) : p \in platforms}
                     \cup {RevenueCol(Lower(p)) : p \in platforms}
        entry(pl) ==
            LET spend == Sum(t, SpendCol(pl))
                revenue == Sum(t, RevenueCol(pl))
                clicks == SumIfPresent(t, ClicksCol(pl))
                impressions == SumIfPresent(t, ImpressionCol(pl))
            IN  [spend |-> spend,
                 revenue |-> revenue,
                 clicks |-> clicks,
                 impressions |-> impressions,
                 roas |-> GuardedDiv(revenue, spend),
                 ctr |-> IF FGt(impressions, F(0))
                         THEN FMul(FDiv(clicks, impressions), F(100)) ELSE F(0),
                 cpc |-> GuardedDiv(spend, clicks),
                 cpm |-> IF FGt(impressions, F(0))
                         THEN FMul(FDiv(spend, impressions), F(1000)) ELSE F(0),
                 revenue_per_click |-> GuardedDiv(revenue, clicks)]
    IN  IF ~(needed \subseteq t.cols)
        THEN KeyError("marketing_calculate_platform_metrics")
        ELSE [op |-> "marketing_calculate_platform_metrics", err |-> "none",
              metrics |-> [pl \in {Lower(p) : p \in platforms} |-> entry(pl)]]

\* metrics_calculator.calculate_efficiency_metrics(df): "a / b if b > 0 else
\* 0" reads the columns of a only when the sum of b is positive
calculate_efficiency_metrics(t) ==
    LET orders_col == IF Has(t, "orders") THEN "orders" ELSE "# of orders"
        tested == {"spend", "clicks", "impression"}
        by_spend == tested \subseteq t.cols /\ FGt(Sum(t, "spend"), F(0))
        by_clicks == tested \subseteq t.cols /\ FGt(Sum(t, "clicks"), F(0))
        by_impression == tested \subseteq t.cols /\ FGt(Sum(t, "impression"), F(0))
        read == tested
                  \cup (IF by_spend THEN {"attributed revenue", orders_col, "new customers"}
                        ELSE {})
                  \cup (IF by_clicks THEN {"attributed revenue", orders_col} ELSE {})
                  \cup (IF by_impression THEN {"attributed revenue"} ELSE {})
        per(num, den, positive) == IF positive THEN FDiv(Sum(t, num), Sum(t, den)) ELSE F(0)
        revenue_per_dollar == per("attributed revenue", "spend", by_spend)
        orders_per_dollar == per(orders_col, "spend", by_spend)
        customers_per_dollar == per("new customers", "spend", by_spend)
    IN  IF ~(read \subseteq t.cols) THEN KeyError("calculate_efficiency_metrics")
        ELSE [op |-> "calculate_efficiency_metrics", err |-> "none",
              revenue_per_dollar |-> revenue_per_dollar,
              orders_per_dollar |-> orders_per_dollar,
              customers_per_dollar |-> customers_per_dollar,
              revenue_per_click |-> per("attributed revenue", "clicks", by_clicks),
              orders_per_click |-> per(orders_col, "clicks", by_clicks),
              revenue_per_impression |->
                  per("attributed revenue", "impression", by_impression),
              overall_efficiency_score |->
                  FDiv(FAdd(FAdd(revenue_per_dollar, orders_per_dollar),
                            customers_per_dollar), F(3))]

\* Series.replace([np.inf, -np.inf], 0): a missing value is not replaced
ReplaceInf(s) ==
    [i \in 1..Len(s) |-> IF s[i].k \in {"inf", "ninf"} THEN F(0) ELSE s[i]]

\* df[num] / df[den], row by row
Divide(num, den) == [i \in 1..Len(num) |-> FDiv(num[i], den[i])]

\* df_copy[name] = df_copy[num] / df_copy[den], then the replace
DailyRatio(t, name, num, den) ==
    SetCol(t, name, ReplaceInf(Divide(Col(t, num), Col(t, den))))

\* metrics_calculator.calculate_daily_performance_metrics(df): works on
\* df.copy() and returns it
calculate_daily_performance_metrics(t) ==
    LET revenue_col == IF Has(t, "total_revenue") THEN "total_revenue" ELSE "total revenue"
        orders_col == IF Has(t, "orders") THEN "orders" ELSE "# of orders"
        needed == {"attributed revenue", "spend", revenue_col, orders_col,
                   "new customers", "clicks", "impression", "date", "marketing_roas"}
        r1 == DailyRatio(t, "daily_roas", "attributed revenue", "spend")
        r2 == DailyRatio(r1, "daily_aov", revenue_col, orders_col)
        r3 == DailyRatio(r2, "daily_cac", "spend", "new customers")
        r4 == DailyRatio(r3, "daily_conversion_rate", orders_col, "clicks")
        r5 == DailyRatio(r4, "daily_ctr", "clicks", "impression")
        sorted == SortValues(r5)
        m1 == SetCol(sorted, "revenue_7d_ma", Rolling(Col(sorted, revenue_col)))
        m2 == SetCol(m1, "roas_7d_ma", Rolling(Col(sorted, "marketing_roas")))
        m3 == SetCol(m2, "spend_7d_ma", Rolling(Col(sorted, "spend")))
    IN  IF ~(needed \subseteq t.cols)
        THEN [op |-> "calculate_daily_performance_metrics", err |-> "KeyError",
              inplace |-> t]
        ELSE [op |-> "calculate_daily_performance_metrics", err |-> "none",
              inplace |-> t, tbl |-> m3]

\* the week of a day, weeks running Monday to Sunday from day 1
WeekOf(d) == ((d - 1) \div 7) + 1

\* the members of a set of integers in ascending order
RECURSIVE Ascending(_)
Ascending(S) ==
    IF S = {} THEN <<>>
    ELSE LET m == CHOOSE x \in S : \A y \in S : x <= y
         IN  <<m>> \o Ascending(S \ {m})

\* the rows of t whose column c has the value v
RowsWhere(t, c, v) ==
    [cols |-> t.cols,
     rows |-> SelectRows(t.rows, [i \in 1..Len(t.rows) |-> t.rows[i][c] = v])]

\* Series.clip(0, 1)
Clip01(x) ==
    IF IsNaN(x) THEN x
    ELSE IF FLt(x, F(0)) THEN F(0)
    ELSE IF FGt(x, F(1)) THEN F(1)
    ELSE x

\* metrics_calculator.calculate_cohort_metrics(df): df['week'] is assigned
\* on the caller's table before the aggregation
calculate_cohort_metrics(t) ==
    LET revenue_col == IF Has(t, "total_revenue") THEN "total_revenue" ELSE "total revenue"
        orders_col == IF Has(t, "orders") THEN "orders" ELSE "# of orders"
        inplace == SetCol(t, "week",
                          [i \in 1..Len(t.rows) |-> F(WeekOf(t.rows[i]["date"].n))])
        weeks == Ascending({inplace.rows[i]["week"].n : i \in 1..Len(inplace.rows)})
        of(k) == RowsWhere(inplace, "week", F(weeks[k]))
        total(k, c) == Sum(of(k), c)
        RECURSIVE cumsum(_, _)
        cumsum(k, c) == IF k = 0 THEN F(0) ELSE FAdd(cumsum(k - 1, c), total(k, c))
        earlier(k) == IF k = 1 THEN F(1) ELSE total(k - 1, "new customers")
        weekly_cols == {"week", "new customers", orders_col, revenue_col, "spend",
                        "cumulative_customers", "cumulative_revenue",
                        "cumulative_spend", "retention_rate"}
        weekly_metrics ==
            [cols |-> weekly_cols,
             rows |-> [k \in 1..Len(weeks) |->
                [c \in weekly_cols |->
                    CASE c = "week" -> F(((weeks[k] - 1) * 7) + 1)
                      [] c = "cumulative_customers" -> cumsum(k, "new customers")
                      [] c = "cumulative_revenue" -> cumsum(k, revenue_col)
                      [] c = "cumulative_spend" -> cumsum(k, "spend")
                      [] c = "retention_rate" ->
                           Clip01(FDiv(total(k, orders_col), earlier(k)))
                      [] OTHER -> total(k, c)]]]
    IN  IF ~Has(t, "date")
        THEN [op |-> "calculate_cohort_metrics", err |-> "KeyError", inplace |-> t]
        ELSE IF ~({"new customers", orders_col, revenue_col, "spend"} \subseteq t.cols)
        THEN [op |-> "calculate_cohort_metrics", err |-> "KeyError",
              inplace |-> inplace]
        ELSE [op |-> "calculate_cohort_metrics", err |-> "none",
              inplace |-> inplace, tbl |-> weekly_metrics]

\* day_name() of a day, day 1 being Monday 2024-01-01, as the position of the
\* name in DayNames
DayNames ==
    <<"Monday", "Tuesday", "Wednesday", "Thursday", "Friday", "Saturday", "Sunday">>

DayName(d) == DayNames[((d - 1) % 7) + 1]

\* the index order of a groupby over day names: alphabetical
SortedDayNames ==
    <<"Friday", "Monday", "Saturday", "Sunday", "Thursday", "Tuesday", "Wednesday">>

\* the float encoding a day name in a table cell: its position in DayNames
DayCell(d) == F(((d - 1) % 7) + 1)

\* round(2): to the nearest hundredth, a tie to the even one
Round2(x) ==
    IF ~IsFinite(x) THEN x
    ELSE LET num == x.n * 100
             low == IF num >= 0 THEN num \div x.d ELSE -(((-num) + x.d - 1) \div x.d)
             rest == num - (low * x.d)
         IN  IF 2 * rest > x.d \/ (2 * rest = x.d /\ low % 2 = 1)
             THEN Q(low + 1, 100) ELSE Q(low, 100)

\* Series.idxmax() / idxmin() over an index given in order: the first label
\* carrying the extreme present value
IdxMax(order, val) ==
    LET present == {k \in 1..Len(order) : ~IsNaN(val[order[k]])}
        best == {k \in present : \A j \in present : FLe(val[order[j]], val[order[k]])}
    IN  order[CHOOSE k \in best : \A j \in best : k <= j]

IdxMin(order, val) ==
    LET present == {k \in 1..Len(order) : ~IsNaN(val[order[k]])}
        best == {k \in present : \A j \in present : FLe(val[order[k]], val[order[j]])}
    IN  order[CHOOSE k \in best : \A j \in best : k <= j]

\* metrics_calculator.calculate_seasonality_metrics(df): both calendar
\* columns are assigned on the caller's table before the aggregation;
\* revenue_volatility = std / mean is kept as the pair (std squared, mean)
calculate_seasonality_metrics(t) ==
    LET revenue_col == IF Has(t, "total_revenue") THEN "total_revenue" ELSE "total revenue"
        orders_col == IF Has(t, "orders") THEN "orders" ELSE "# of orders"
        n == Len(t.rows)
        inplace == SetCol(SetCol(t, "day_of_week",
                                 [i \in 1..n |-> DayCell(t.rows[i]["date"].n)]),
                          "week_of_year",
                          [i \in 1..n |-> F(WeekOf(t.rows[i]["date"].n))])
        days == SelectSeq(SortedDayNames,
                          LAMBDA name : \E i \in 1..n : DayName(t.rows[i]["date"].n) = name)
        on(name) ==
            RowsWhere(inplace, "day_of_week",
                      F(CHOOSE k \in 1..Len(DayNames) : DayNames[k] = name))
        dow_metrics ==
            [name \in {days[k] : k \in 1..Len(days)} |->
                [revenue |-> Round2(Mean(on(name), revenue_col)),
                 orders |-> Round2(Mean(on(name), orders_col)),
                 spend |-> Round2(Mean(on(name), "spend")),
                 marketing_roas |-> Round2(Mean(on(name), "marketing_roas"))]]
        weeks == Ascending({WeekOf(t.rows[i]["date"].n) : i \in 1..n})
        in(w) == RowsWhere(inplace, "week_of_year", F(w))
        weekly_metrics ==
            [w \in {weeks[k] : k \in 1..Len(weeks)} |->
                [revenue |-> Round2(Sum(in(w), revenue_col)),
                 orders |-> Round2(Sum(in(w), orders_col)),
                 spend |-> Round2(Sum(in(w), "spend")),
                 marketing_roas |-> Round2(Mean(in(w), "marketing_roas"))]]
        dow_revenue == [name \in DOMAIN dow_metrics |-> dow_metrics[name].revenue]
        weekly_revenue == [w \in DOMAIN weekly_metrics |-> weekly_metrics[w].revenue]
        no_revenue == \A name \in DOMAIN dow_metrics : IsNaN(dow_revenue[name])
    IN  IF ~Has(t, "date")
        THEN [op |-> "calculate_seasonality_metrics", err |-> "KeyError", inplace |-> t]
        ELSE IF ~({revenue_col, orders_col, "spend", "marketing_roas"} \subseteq t.cols)
        THEN [op |-> "calculate_seasonality_metrics", err |-> "KeyError",
              inplace |-> inplace]
        ELSE IF no_revenue
        THEN [op |-> "calculate_seasonality_metrics", err |-> "ValueError",
              inplace |-> inplace]
        ELSE [op |-> "calculate_seasonality_metrics", err |-> "none",
              inplace |-> inplace,
              day_of_week_analysis |-> dow_metrics,
              weekly_analysis |-> weekly_metrics,
              best_performing_day |-> IdxMax(days, dow_revenue),
              worst_performing_day |-> IdxMin(days, dow_revenue),
              best_performing_week |-> IdxMax(weeks, weekly_revenue),
              worst_performing_week |-> IdxMin(weeks, weekly_revenue),
              revenue_volatility |-> [std_squared |-> Var(Col(t, revenue_col)),
                                      mean |-> Mean(t, revenue_col)]]

\* Series.max(): the largest present value, NaN when there is none
SeriesMax(s) ==
    LET present == {i \in 1..Len(s) : ~IsNaN(s[i])}
    IN  IF present = {} THEN NaN
        ELSE s[CHOOSE i \in present : \A j \in present : FLe(s[j], s[i])]

\* pages/Revenue_Analysis.py calculate_revenue_metrics(df): {} without a
\* revenue column; idxmax() raises on a table with no revenue value
calculate_revenue_metrics(t) ==
    LET revenue_col == IF Has(t, "total revenue") THEN "total revenue" ELSE "total_revenue"
        s == Col(t, revenue_col)
        first_half == FirstHalf(t)
        second_half == SecondHalf(t)
        present == {i \in 1..Len(s) : ~IsNaN(s[i])}
        peak == CHOOSE i \in present :
                   /\ \A j \in present : FLe(s[j], s[i])
                   /\ \A j \in present : s[j] = s[i] => i <= j
    IN  IF ~Has(t, revenue_col)
        THEN [op |-> "calculate_revenue_metrics", err |-> "none", empty |-> TRUE]
        ELSE IF ~Has(t, "date") THEN KeyError("calculate_revenue_metrics")
        ELSE IF present = {}
        THEN [op |-> "calculate_revenue_metrics", err |-> "ValueError"]
        ELSE [op |-> "calculate_revenue_metrics", err |-> "none", empty |-> FALSE,
              total_revenue |-> Sum(t, revenue_col),
              avg_daily_revenue |-> Mean(t, revenue_col),
              growth_rate |-> GrowthRate(Sum(second_half, revenue_col),
                                         Sum(first_half, revenue_col)),
              peak_revenue |-> SeriesMax(s),
              peak_date |-> t.rows[peak]["date"]]

----------------------------------------------------------------------------
(* Input tables of the ingestion pipeline *)

MaxRows == 2

LongRows == 8

BaseCols ==
    {"date", "total revenue", "# of orders", "new customers", "spend",
     "attributed revenue", "marketing_roas", "clicks", "impression",
     "profit_margin", "attribution_rate"}

ProfitCols == {"gross profit", "COGS"}

FacebookCols ==
    {"facebook_spend", "facebook_attributed revenue", "facebook_clicks",
     "facebook_impression"}

\* column sets of the input file: with the profit columns and the columns of
\* one platform, and without the stored ROAS
FullPipeCols == BaseCols \cup FacebookCols \cup ProfitCols

PipeColSets == {FullPipeCols, BaseCols \ {"marketing_roas"}}

MoneyCols ==
    {"total revenue", "spend", "attributed revenue", "facebook_spend",
     "facebook_attributed revenue", "gross profit", "COGS", "# of orders"}

CountCols == {"clicks", "facebook_clicks", "marketing_roas"}

MoneyVals == {NaN, F(-1), F(2)}

CountVals == {NaN, F(-1), F(1)}

ReachVals == {F(0), F(2)}

PipeRow(cols, date, x, y, z) ==
    [c \in cols |->
        CASE c = "date" -> F(date)
          [] c \in MoneyCols -> x
          [] c \in CountCols -> y
          [] OTHER -> z]

\* dates 1..n in file order, or n..1
DateOf(i, n, reversed) == IF reversed THEN n + 1 - i ELSE i

\* the values of the days of a file: the first two days take every
\* combination, a later day varies in its money values only
RowValues ==
    {v \in [1..MaxRows -> MoneyVals \X CountVals \X ReachVals] :
        \A i \in 3..MaxRows : v[i][2] = F(1) /\ v[i][3] = F(2)}

ShortTables ==
    {[cols |-> cs,
      rows |-> [i \in 1..n |->
                  PipeRow(cs, DateOf(i, n, rev), v[i][1], v[i][2], v[i][3])]] :
        cs \in PipeColSets, n \in 0..MaxRows, rev \in BOOLEAN,
        v \in RowValues}

LongTables ==
    {[cols |-> BaseCols,
      rows |-> [i \in 1..LongRows |->
                  PipeRow(BaseCols, DateOf(i, LongRows, rev), F(v[i]), F(v[i]), F(1))]] :
        rev \in BOOLEAN, v \in [1..LongRows -> {1, 3}]}

\* tables long enough for the three-standard-deviation filter to drop a row:
\* a column is 0 but for a spike at the first or last day and a low value at
\* the middle day
OutlierRows == 11

Spike(i, at, low, high) ==
    IF i = at THEN high ELSE IF i = (OutlierRows + 1) \div 2 THEN low ELSE 0

OutlierTables ==
    {[cols |-> BaseCols,
      rows |-> [i \in 1..OutlierRows |->
                  PipeRow(BaseCols, i, F(Spike(i, xat, xlow, xhigh)),
                          F(Spike(i, yat, ylow, yhigh)), F(1))]] :
        xat \in {1, OutlierRows}, yat \in {1, OutlierRows},
        xlow \in {0, 1}, ylow \in {0, 1}, xhigh \in {0, 1, 4}, yhigh \in {0, 1, 4}}

\* the same spike in the shorter tables, from three days up to one day less
\* than OutlierRows
SpikeTables ==
    {[cols |-> BaseCols,
      rows |-> [i \in 1..n |->
                  PipeRow(BaseCols, i,
                          F(IF i = (IF last THEN n ELSE 1) THEN xhigh ELSE 0),
                          F(IF i = (IF last THEN 1 ELSE n) THEN yhigh ELSE 0), F(1))]] :
        n \in 3..(OutlierRows - 1), last \in BOOLEAN, xhigh \in {1, 4},
        yhigh \in {0, 4}}

----------------------------------------------------------------------------
(* load_and_process_data: read, rename, clean, derive *)

InitPipeline ==
    /\ df \in ShortTables \cup LongTables \cup OutlierTables \cup SpikeTables
    /\ df_in = df
    /\ ret = [op |-> "read_csv", err |-> "none", inplace |-> df, tbl |-> df,
              warned |-> FALSE]
    /\ pc = "loaded"

RenameColumns ==
    /\ pc = "loaded"
    /\ df_in' = ret.tbl
    /\ df' = ret.tbl
    /\ ret' = [op |-> "rename", err |-> "none", inplace |-> ret.tbl,
               tbl |-> Rename(ret.tbl), warned |-> FALSE]
    /\ pc' = "renamed"

ValidateAndClean ==
    /\ pc = "renamed"
    /\ ret.err = "none"
    /\ df_in' = ret.tbl
    /\ ret' = validate_and_clean_data(ret.tbl)
    /\ df' = ret'.inplace
    /\ pc' = "cleaned"

CalculateDerivedMetrics ==
    /\ pc = "cleaned"
    /\ ret.err = "none"
    /\ df_in' = ret.tbl
    /\ ret' = calculate_derived_metrics(ret.tbl)
    /\ df' = ret'.inplace
    /\ pc' = "derived"

NextPipeline == RenameColumns \/ ValidateAndClean \/ CalculateDerivedMetrics

SpecPipeline == InitPipeline /\ [][NextPipeline]_vars

----------------------------------------------------------------------------
(* Input tables of the dashboard pages: the file as read, not cleaned *)

MaxPageRows == 3

PlatformCols ==
    {SpendCol(p) : p \in PlatformSet} \cup {RevenueCol(p) : p \in PlatformSet}

KpiCols ==
    {"date", "total revenue", "# of orders", "new customers", "spend",
     "attributed revenue", "attribution_rate", "marketing_roas", "profit_margin"}

\* the columns the end-to-end scenario lists
ScenarioCols == {"date", "spend", "total revenue"} \cup PlatformCols

ReachCols ==
    {"clicks", "impression"} \cup {ClicksCol(p) : p \in PlatformSet}
                             \cup {ImpressionCol(p) : p \in PlatformSet}

PageColSets ==
    {KpiCols \cup PlatformCols \cup ReachCols,
     (KpiCols \cup PlatformCols) \ {"tiktok_spend", "tiktok_attributed revenue"},
     (KpiCols \cup PlatformCols) \ {"google_spend"},
     (KpiCols \cup PlatformCols) \ {"facebook_attributed revenue"},
     ScenarioCols}

\* one day of the file: r drives revenue and orders, a and b the spends,
\* rates and attributed revenues
PageRow(cols, date, r, a, b) ==
    [c \in cols |->
        CASE c = "date" -> F(date)
          [] c \in {"total revenue", "# of orders", "facebook_attributed revenue"} -> r
          [] c \in {"facebook_spend", "tiktok_spend", "marketing_roas",
                     "attribution_rate", "google_attributed revenue"} -> a
          [] c \in {"google_spend", "profit_margin", "new customers",
                     "tiktok_attributed revenue", "impression",
                     "facebook_impression", "google_impression",
                     "tiktok_impression"} -> b
          [] c = "spend" -> FAdd(FAdd(a, a), b)
          [] OTHER -> r]

\* file order of the dates: ascending, descending, or one date for all rows
PageDate(i, n, order) ==
    CASE order = "asc" -> i
      [] order = "desc" -> n + 1 - i
      [] OTHER -> 1

PageTables ==
    {[cols |-> cs,
      rows |-> [i \in 1..n |-> PageRow(cs, PageDate(i, n, order), F(r[i]), a, b)]] :
        cs \in PageColSets, n \in 0..MaxPageRows, order \in {"asc", "desc", "same"},
        r \in [1..MaxPageRows -> {0, 1, 2}], a \in {F(-1), F(0), F(1)},
        b \in {NaN, F(0), F(2)}}

\* the end-to-end scenario: ten days, spend 100 split 60/40/0, revenue 500,
\* attributed revenue 300/150/0
ScenarioRow(date) ==
    [c \in ScenarioCols |->
        CASE c = "date" -> F(date)
          [] c = "spend" -> F(100)
          [] c = "facebook_spend" -> F(60)
          [] c = "google_spend" -> F(40)
          [] c = "tiktok_spend" -> F(0)
          [] c = "total revenue" -> F(500)
          [] c = "facebook_attributed revenue" -> F(300)
          [] c = "google_attributed revenue" -> F(150)
          [] OTHER -> F(0)]

ScenarioTable == [cols |-> ScenarioCols, rows |-> [i \in 1..10 |-> ScenarioRow(i)]]

\* the scenario with the columns calculate_kpis reads besides
FullScenarioTable ==
    [cols |-> ScenarioCols \cup KpiCols,
     rows |-> [i \in 1..10 |->
                 [c \in ScenarioCols \cup KpiCols |->
                     IF c \in ScenarioCols THEN ScenarioRow(i)[c] ELSE F(1)]]]

----------------------------------------------------------------------------
(* The dashboard pages: one computation on the loaded table *)

InitPages ==
    /\ df \in PageTables \cup {ScenarioTable, FullScenarioTable}
    /\ df_in = df
    /\ ret = [op |-> "read_csv", err |-> "none", inplace |-> df, tbl |-> df,
              warned |-> FALSE]
    /\ pc = "loaded"

\* a computation that only reads the table
Compute(result) ==
    /\ pc = "loaded"
    /\ df_in' = df
    /\ df' = df
    /\ ret' = result
    /\ pc' = "done"

CalculateKpis == Compute(calculate_kpis(df))

OverviewCalculateKpis == Compute(overview_calculate_kpis(df))

DashBoardCalculateKpis == Compute(dashboard_calculate_kpis(df))

CalculateAttributionModel == Compute(calculate_attribution_model(df))

CalculateAttributionModelsSmart ==
    Compute(calculate_attribution_models_smart(df, smart_column_finder(df)))

\* generate_insights_and_recommendations calls it on the revenue column
CalculateTrendDirection ==
    /\ Has(df, "total revenue")
    /\ \E sklearn \in BOOLEAN :
          Compute(calculate_trend_direction(Col(df, "total revenue"), sklearn))

\* pages/Revenue_Analysis.py main()
CalculateRevenueMetrics == Compute(calculate_revenue_metrics(df))

NextPages ==
    \/ CalculateKpis
    \/ OverviewCalculateKpis
    \/ DashBoardCalculateKpis
    \/ CalculateAttributionModel
    \/ CalculateAttributionModelsSmart
    \/ CalculateTrendDirection
    \/ CalculateRevenueMetrics

SpecPages == InitPages /\ [][NextPages]_vars

----------------------------------------------------------------------------
(* The metrics calculator: one computation on the loaded table *)

\* a computation that may assign columns on the table it is given
ComputeInPlace(result) ==
    /\ pc = "loaded"
    /\ df_in' = df
    /\ df' = result.inplace
    /\ ret' = result
    /\ pc' = "done"

CalculatePlatformMetrics == Compute(calculate_platform_metrics(df, PlatformNames))

\* pages/Marketing_Performance.py main()
MarketingCalculatePlatformMetrics ==
    Compute(marketing_calculate_platform_metrics(df, PlatformNames))

CalculateEfficiencyMetrics == Compute(calculate_efficiency_metrics(df))

CalculateDailyPerformanceMetrics ==
    ComputeInPlace(calculate_daily_performance_metrics(df))

CalculateCohortMetrics == ComputeInPlace(calculate_cohort_metrics(df))

CalculateSeasonalityMetrics == ComputeInPlace(calculate_seasonality_metrics(df))

NextCalculator ==
    \/ CalculateKpis
    \/ CalculatePlatformMetrics
    \/ MarketingCalculatePlatformMetrics
    \/ CalculateEfficiencyMetrics
    \/ CalculateDailyPerformanceMetrics
    \/ CalculateCohortMetrics
    \/ CalculateSeasonalityMetrics

SpecCalculator == InitPages /\ [][NextCalculator]_vars

----------------------------------------------------------------------------
(* The metrics calculator on the table load_and_process_data returns *)

\* the input files that carry every column the pipeline reads
ProcessedFiles == {t \in ShortTables : t.cols = FullPipeCols}

InitProcessed ==
    /\ df \in ProcessedFiles
    /\ df_in = df
    /\ ret = [op |-> "read_csv", err |-> "none", inplace |-> df, tbl |-> df,
              warned |-> FALSE]
    /\ pc = "loaded"

\* a computation on the table load_and_process_data returned
Report(result) ==
    /\ pc = "derived"
    /\ ret.err = "none"
    /\ df_in' = ret.tbl
    /\ df' = ret.tbl
    /\ ret' = result
    /\ pc' = "reported"

ReportKpis == Report(calculate_kpis(ret.tbl))

ReportEfficiencyMetrics == Report(calculate_efficiency_metrics(ret.tbl))

ReportDailyPerformanceMetrics == Report(calculate_daily_performance_metrics(ret.tbl))

NextProcessed ==
    \/ RenameColumns
    \/ ValidateAndClean
    \/ CalculateDerivedMetrics
    \/ ReportKpis
    \/ ReportEfficiencyMetrics
    \/ ReportDailyPerformanceMetrics

SpecProcessed == InitProcessed /\ [][NextProcessed]_vars

----------------------------------------------------------------------------
(* load_data of the pages and what main does with its result *)

ProcessedPath == "data/processed/unified_marketing_business_data.csv"

RootPath == "unified_marketing_business_data.csv"

Paths == {ProcessedPath, RootPath}

LoaderPages == {"DashBoard", "Attribution_Analysis"}

\* the path of the outer try, and the path of the try in its handler
PrimaryPath(page) == IF page = "DashBoard" THEN RootPath ELSE ProcessedPath

FallbackPath(page) == IF page = "DashBoard" THEN ProcessedPath ELSE RootPath

\* a path with no file, what load_data returns without a file, and a file
\* that has no date column
Missing == [missing |-> TRUE]

NoTable == [none |-> TRUE]

NoDateFile == [cols |-> {"spend"}, rows |-> <<>>]

\* the files a path may hold
LoaderFiles ==
    {Missing, NoDateFile}
       \cup {t \in PageTables :
               t.cols = KpiCols \cup PlatformCols \cup ReachCols /\ Len(t.rows) <= 1}

InitLoader ==
    /\ df = NoTable
    /\ df_in = NoTable
    /\ \E page \in LoaderPages : \E files \in [Paths -> LoaderFiles] :
          ret = [op |-> "load_data", err |-> "none", page |-> page, files |-> files,
                 tried |-> <<>>, message |-> ""]
    /\ pc = "start"

\* pd.read_csv(path) and df['date'] = pd.to_datetime(df['date']) of one try
\* block: goes to found when the file is read, to absent on
\* FileNotFoundError; any other exception leaves load_data
ReadFile(path, found, absent) ==
    LET file == ret.files[path]
        tried == Append(ret.tried, path)
    IN  IF file = Missing
        THEN /\ ret' = [ret EXCEPT !.tried = tried]
             /\ pc' = absent
             /\ UNCHANGED <<df, df_in>>
        ELSE IF ~Has(file, "date")
        THEN /\ ret' = [ret EXCEPT !.tried = tried, !.err = "KeyError"]
             /\ pc' = "raised"
             /\ UNCHANGED <<df, df_in>>
        ELSE /\ ret' = [ret EXCEPT !.tried = tried]
             /\ df' = file
             /\ pc' = found
             /\ UNCHANGED df_in

ReadPrimary ==
    /\ pc = "start"
    /\ ReadFile(PrimaryPath(ret.page), "returned", "primary_missing")

\* the handler that gives up at once: st.error and None without a second try
ReadFallbackSkipped ==
    /\ pc = "primary_missing"
    /\ ret' = [ret EXCEPT !.message = "Data file not found."]
    /\ pc' = "failed"
    /\ UNCHANGED <<df, df_in>>

ReadFallback ==
    /\ pc = "primary_missing"
    /\ ReadFile(FallbackPath(ret.page), "returned", "fallback_missing")

\* st.error(...) and return None
ReportMissing ==
    /\ pc = "fallback_missing"
    /\ ret' = [ret EXCEPT !.message =
                  IF ret.page = "DashBoard"
                  THEN "Please ensure the unified data file exists"
                  ELSE "Data file not found."]
    /\ pc' = "failed"
    /\ UNCHANGED <<df, df_in>>

\* main with a table: the first computation of the page
MainCompute ==
    /\ pc = "returned"
    /\ df_in' = df
    /\ df' = df
    /\ ret' = [op |-> "main", err |-> "none", loaded |-> ret,
               result |-> IF ret.page = "DashBoard"
                          THEN dashboard_calculate_kpis(df)
                          ELSE calculate_attribution_models_smart(
                                   df, smart_column_finder(df))]
    /\ pc' = "computed"

\* main without a table: st.stop() or return
MainStop ==
    /\ pc = "failed"
    /\ ret' = [op |-> "main", err |-> "none", loaded |-> ret, result |-> NoTable]
    /\ pc' = "stopped"
    /\ UNCHANGED <<df, df_in>>

NextLoader ==
    \/ ReadPrimary
    \/ ReadFallback
    \/ ReportMissing
    \/ MainCompute
    \/ MainStop

SpecLoader == InitLoader /\ [][NextLoader]_vars

----------------------------------------------------------------------------
(* Insights and recommendations: pages/Trends_Insights.py *)

\* one entry of either list: the fixed part of its text and the trend or
\* platform name inserted into it; the figures an f-string formats into the
\* text are left out, no entry is ever compared with another by them
Item(text, about) == [text |-> text, about |-> about]

fallback_insights ==
    <<Item("Marketing performance shows consistent patterns across platforms", ""),
      Item("Data tracking captures significant portion of customer journey", ""),
      Item("Campaign performance varies across different time periods", ""),
      Item("Attribution data indicates multi-channel customer behavior", "")>>

fallback_recommendations ==
    <<Item("Continue monitoring key performance indicators regularly", ""),
      Item("Implement A/B testing for continuous improvement", ""),
      Item("Review and optimize underperforming campaigns weekly", ""),
      Item("Focus on customer lifetime value optimization", "")>>

\* revenue_col = 'total revenue' if 'total revenue' in df.columns else 'total_revenue'
InsightRevenueCol(t) == IF Has(t, "total revenue") THEN "total revenue" ELSE "total_revenue"

\* the revenue trend: one insight, two recommendations
RevenueInsights(t, sklearn) ==
    IF ~Has(t, InsightRevenueCol(t)) THEN [insights |-> <<>>, recommendations |-> <<>>]
    ELSE LET revenue_trend ==
                 calculate_trend_direction(Col(t, InsightRevenueCol(t)), sklearn).direction
         IN  [insights |-> <<Item("Revenue trend is", revenue_trend)>>,
              recommendations |->
                  CASE revenue_trend = "decreasing" ->
                         <<Item("Consider increasing marketing spend or optimizing campaign performance", ""),
                           Item("Review underperforming campaigns and reallocate budget", "")>>
                    [] revenue_trend = "increasing" ->
                         <<Item("Scale successful campaigns while maintaining efficiency", ""),
                           Item("Invest more in top-performing platforms", "")>>
                    [] OTHER ->
                         <<Item("Focus on optimization to break through revenue plateau", ""),
                           Item("Test new creative formats and targeting strategies", "")>>]

\* the ROAS analysis: one insight, one recommendation
RoasInsights(t, sklearn) ==
    IF ~Has(t, "marketing_roas") THEN [insights |-> <<>>, recommendations |-> <<>>]
    ELSE LET avg_roas == Mean(t, "marketing_roas")
             roas_trend ==
                 calculate_trend_direction(Col(t, "marketing_roas"), sklearn).direction
         IN  [insights |-> <<Item("Average ROAS is", roas_trend)>>,
              recommendations |->
                  IF FLt(avg_roas, F(2))
                  THEN <<Item("ROAS below 2.0 - Review targeting and creative performance immediately", "")>>
                  ELSE IF FGt(avg_roas, F(4))
                  THEN <<Item("Excellent ROAS - Consider scaling budget allocation", "")>>
                  ELSE <<Item("Good ROAS performance - Focus on incremental improvements", "")>>]

\* the platforms with both a spend and an attributed-revenue column, in the
\* order of the loop
PerformancePlatforms(t) ==
    SelectSeq(Platforms, LAMBDA p : Has(t, SpendCol(p)) /\ Has(t, RevenueCol(p)))

\* platform_performance[platform]
PlatformRoas(t, p) ==
    LET total_spend == Sum(t, SpendCol(p))
        total_revenue == Sum(t, RevenueCol(p))
        roas == IF FGt(total_spend, F(0)) THEN FDiv(total_revenue, total_spend) ELSE F(0)
    IN  IF IsFinite(roas) THEN roas ELSE F(0)

\* the platform comparison: two insights, one or two recommendations
PlatformInsights(t) ==
    LET order == PerformancePlatforms(t)
        platform_performance == [p \in PlatformSet |-> PlatformRoas(t, p)]
    IN  IF order = <<>> THEN [insights |-> <<>>, recommendations |-> <<>>]
        ELSE LET best_platform == IdxMax(order, platform_performance)
                 worst_platform == IdxMin(order, platform_performance)
             IN  [insights |->
                      <<Item("Best performing platform:", Title(best_platform)),
                        Item("Lowest performing platform:", Title(worst_platform))>>,
                  recommendations |->
                      <<Item("Increase budget allocation to", Title(best_platform))>> \o
                      (IF FLt(platform_performance[worst_platform], Q(3, 2))
                       THEN <<Item("Consider optimizing ... campaigns", Title(worst_platform))>>
                       ELSE <<>>)]

\* the attribution analysis: one insight, one recommendation
AttributionInsights(t) ==
    IF ~Has(t, "attribution_rate") THEN [insights |-> <<>>, recommendations |-> <<>>]
    ELSE LET avg_attribution == Mean(t, "attribution_rate")
         IN  [insights |-> <<Item("Average attribution rate:", "")>>,
              recommendations |->
                  IF FLt(avg_attribution, Q(2, 5))
                  THEN <<Item("Low attribution rate - Implement better tracking systems", "")>>
                  ELSE IF FGt(avg_attribution, Q(3, 5))
                  THEN <<Item("High attribution rate - Leverage this data for optimization", "")>>
                  ELSE <<Item("Good attribution tracking - Continue monitoring", "")>>]

\* generate_insights_and_recommendations up to "Ensure minimum content";
\* passes is the parity of the number of loop passes made since
GeneratedInsights(t, sklearn) ==
    LET revenue == RevenueInsights(t, sklearn)
        roas == RoasInsights(t, sklearn)
        platform == PlatformInsights(t)
        attribution == AttributionInsights(t)
    IN  [op |-> "generate_insights_and_recommendations", err |-> "none",
         passes |-> 0,
         insights |-> revenue.insights \o roas.insights \o platform.insights
                          \o attribution.insights,
         recommendations |-> revenue.recommendations \o roas.recommendations
                          \o platform.recommendations \o attribution.recommendations]

RECURSIVE FallbackPass(_, _)
\* the body of either while loop: one pass over the fallback list, appending
\* each fallback that is not in the list yet, until the list has five entries
FallbackPass(items, fallbacks) ==
    IF fallbacks = <<>> THEN items
    ELSE IF \E i \in 1..Len(items) : items[i] = Head(fallbacks)
    THEN FallbackPass(items, Tail(fallbacks))
    ELSE LET appended == Append(items, Head(fallbacks))
         IN  IF Len(appended) >= 5 THEN appended
             ELSE FallbackPass(appended, Tail(fallbacks))

\* lst[:5]
FirstFive(lst) == IF Len(lst) <= 5 THEN lst ELSE SubSeq(lst, 1, 5)

MaxInsightRows == 2

\* the groups of columns the analysis looks for
InsightGroups ==
    {{"total revenue"}, {"marketing_roas"},
     {"facebook_spend", "facebook_attributed revenue"},
     {"google_spend", "google_attributed revenue"}, {"attribution_rate"}}

\* every combination of the groups, the other spelling of the revenue
\* column, and a spend column without its attributed-revenue column
InsightColSets ==
    {{"date"} \cup UNION gs : gs \in SUBSET InsightGroups}
        \cup {{"date", "total_revenue"}, {"date", "tiktok_spend"}}

\* revenue rising or falling by one a day
InsightTables ==
    {[cols |-> cs,
      rows |-> [i \in 1..n |->
                  PageRow(cs, i, F(IF rising THEN i ELSE n + 1 - i), a, F(2))]] :
        cs \in InsightColSets, n \in 0..MaxInsightRows, rising \in BOOLEAN,
        a \in {F(0), F(1)}}

InitInsights ==
    /\ df \in InsightTables
    /\ df_in = df
    /\ ret = [op |-> "read_csv", err |-> "none", passes |-> 0,
              insights |-> <<>>, recommendations |-> <<>>]
    /\ pc = "loaded"

\* the four analyses
GenerateInsights ==
    /\ pc = "loaded"
    /\ \E sklearn \in BOOLEAN : ret' = GeneratedInsights(df, sklearn)
    /\ pc' = "insights_loop"
    /\ UNCHANGED <<df, df_in>>

\* while len(insights) < 5: one pass over fallback_insights
FillInsights ==
    /\ pc = "insights_loop"
    /\ Len(ret.insights) < 5
    /\ ret' = [ret EXCEPT !.insights = FallbackPass(@, fallback_insights),
                           !.passes = 1 - @]
    /\ UNCHANGED <<df, df_in, pc>>

\* len(insights) >= 5: the first loop is left
InsightsFilled ==
    /\ pc = "insights_loop"
    /\ Len(ret.insights) >= 5
    /\ pc' = "recommendations_loop"
    /\ UNCHANGED <<df, df_in, ret>>

\* while len(recommendations) < 5: one pass over fallback_recommendations
FillRecommendations ==
    /\ pc = "recommendations_loop"
    /\ Len(ret.recommendations) < 5
    /\ ret' = [ret EXCEPT !.recommendations = FallbackPass(@, fallback_recommendations),
                           !.passes = 1 - @]
    /\ UNCHANGED <<df, df_in, pc>>

\* return insights[:5], recommendations[:5]
ReturnInsights ==
    /\ pc = "recommendations_loop"
    /\ Len(ret.recommendations) >= 5
    /\ ret' = [ret EXCEPT !.insights = FirstFive(@), !.recommendations = FirstFive(@)]
    /\ pc' = "returned"
    /\ UNCHANGED <<df, df_in>>

NextInsights ==
    \/ GenerateInsights
    \/ FillInsights
    \/ InsightsFilled
    \/ FillRecommendations
    \/ ReturnInsights

SpecInsights == InitInsights /\ [][NextInsights]_vars

\* the two loops and the return statement
FinishInsights == FillInsights \/ InsightsFilled \/ FillRecommendations \/ ReturnInsights

\* the interpreter keeps running a call that has reached its loops
SpecInsightsFair == SpecInsights /\ WF_vars(FinishInsights)

----------------------------------------------------------------------------
(* Properties of the ingestion pipeline *)

Cleaned == pc = "cleaned"

Derived == pc = "derived" /\ ret.err = "none"

\* the ratio columns of calculate_derived_metrics with their denominators
RatioColumns ==
    {<<"cac", "new customers">>, <<"aov", "orders">>, <<"ctr", "impression">>,
     <<"cpc", "clicks">>, <<"conversion_rate", "clicks">>,
     <<"revenue_per_impression", "impression">>,
     <<"facebook_ctr", "facebook_impression">>, <<"google_ctr", "google_impression">>,
     <<"tiktok_ctr", "tiktok_impression">>,
     <<"facebook_cpc", "facebook_clicks">>, <<"google_cpc", "google_clicks">>,
     <<"tiktok_cpc", "tiktok_clicks">>,
     <<"facebook_roas", "facebook_spend">>, <<"google_roas", "google_spend">>,
     <<"tiktok_roas", "tiktok_spend">>}

\* C1: in the table calculate_derived_metrics returns, every ratio column is
\* finite in every row and is exactly 0 in the rows whose denominator is 0.
C1_ZeroGuard ==
    Derived =>
      \A i \in 1..Len(ret.tbl.rows) : \A rc \in RatioColumns :
        Has(ret.tbl, rc[1]) =>
          /\ IsFinite(ret.tbl.rows[i][rc[1]])
          /\ (ret.tbl.rows[i][rc[2]] = F(0) => ret.tbl.rows[i][rc[1]] = F(0))

\* a row with spend but no clicks: cpc is the guarded division by zero
C1_Witness ==
    /\ Derived
    /\ Has(ret.tbl, "facebook_cpc")
    /\ \E i \in 1..Len(ret.tbl.rows) :
          /\ ret.tbl.rows[i]["clicks"] = F(0)
          /\ ret.tbl.rows[i]["spend"] = F(2)
          /\ ret.tbl.rows[i]["cpc"] = F(0)
          /\ ret.tbl.rows[i]["facebook_clicks"] = F(0)

\* what zero-fill and clipping make of one input cell
CleanCell(c, v) ==
    IF c = "date" THEN v
    ELSE IF IsNaN(v) THEN F(0)
    ELSE IF c \in financial_columns /\ v.n < 0 THEN F(0)
    ELSE v

\* C4: the table validate_and_clean_data returns has at most as many rows as
\* its input, and each returned row is an input row zero-filled and clipped.
C4_NoNewRows ==
    Cleaned =>
      /\ Len(ret.tbl.rows) <= Len(df_in.rows)
      /\ \A i \in 1..Len(ret.tbl.rows) : \E j \in 1..Len(df_in.rows) :
            \A c \in df_in.cols : ret.tbl.rows[i][c] = CleanCell(c, df_in.rows[j][c])

\* a cleaned table that lost a row, and one that kept clipped and filled rows
C4_Witness ==
    /\ Cleaned
    /\ ret.err = "none"
    /\ Len(ret.tbl.rows) = 2
    /\ \E j \in 1..2 : IsNaN(df_in.rows[j]["clicks"]) /\ df_in.rows[j]["spend"] = F(-1)

C4_WitnessDropped == Cleaned /\ ret.err = "none" /\ Len(ret.tbl.rows) < Len(df_in.rows)

\* C6: in the table calculate_derived_metrics returns, which is sorted by
\* date, each 7-day mean at index i is the mean of rows max(1, i-6)..i, and
\* is a finite number in every row.
WindowMean(s, i) ==
    LET lo == IF i > 7 THEN i - 6 ELSE 1
    IN  FDiv(SeqSum(SubSeq(s, lo, i)), F(i - lo + 1))

C6_RollingMean ==
    Derived =>
      /\ \A i \in 1..(Len(ret.tbl.rows) - 1) :
            FLe(ret.tbl.rows[i]["date"], ret.tbl.rows[i + 1]["date"])
      /\ \A ma \in {<<"revenue_7d_ma", "total_revenue">>,
                     <<"roas_7d_ma", "marketing_roas">>,
                     <<"orders_7d_ma", "orders">>} :
            \A i \in 1..Len(ret.tbl.rows) :
              /\ IsFinite(ret.tbl.rows[i][ma[1]])
              /\ ret.tbl.rows[i][ma[1]] = WindowMean(Col(ret.tbl, ma[2]), i)
              /\ (i = 1 => ret.tbl.rows[i][ma[1]] = ret.tbl.rows[i][ma[2]])

\* a table longer than the window whose rows arrived in reverse date order
\* and whose first mean differs from the eighth row's
C6_Witness ==
    /\ Derived
    /\ Len(ret.tbl.rows) > 7
    /\ df_in.rows[1]["date"] = F(Len(df_in.rows))
    /\ ret.tbl.rows[1]["total_revenue"] = F(3)
    /\ ret.tbl.rows[8]["total_revenue"] = F(1)
    /\ ret.tbl.rows[7]["revenue_7d_ma"] # ret.tbl.rows[8]["revenue_7d_ma"]

\* C10: validate_and_clean_data leaves the table it was given unchanged.
C10_InputUntouched == Cleaned => df = df_in

\* a row cut down to the columns of cols
Restrict(row, cols) == [c \in cols |-> row[c]]

\* how many rows of the sequence, cut down to cols, equal row
Occurrences(rows, cols, row) ==
    Cardinality({i \in 1..Len(rows) : Restrict(rows[i], cols) = row})

\* C11: calculate_derived_metrics only adds columns: the returned table has
\* the rows of its input, each with every input column at its input value,
\* reordered by nothing but ascending date.
C11_OnlyAddsColumns ==
    Derived =>
      /\ Len(ret.tbl.rows) = Len(df_in.rows)
      /\ df_in.cols \subseteq ret.tbl.cols
      /\ \A j \in 1..Len(df_in.rows) :
            Occurrences(ret.tbl.rows, df_in.cols, df_in.rows[j])
              = Occurrences(df_in.rows, df_in.cols, df_in.rows[j])
      /\ \A i \in 1..(Len(ret.tbl.rows) - 1) :
            ret.tbl.rows[i]["date"].n <= ret.tbl.rows[i + 1]["date"].n

\* a table given latest day first, returned earliest day first with the new
\* columns
C11_Witness ==
    /\ Derived
    /\ Len(df_in.rows) = 2
    /\ df_in.rows[1]["date"].n > df_in.rows[2]["date"].n
    /\ Restrict(ret.tbl.rows[1], df_in.cols) = df_in.rows[2]
    /\ df_in.rows[1] # df_in.rows[2]
    /\ "cac" \in ret.tbl.cols \ df_in.cols

\* the sum of f over the index set S
RECURSIVE SumOver(_, _)
SumOver(f, S) ==
    IF S = {} THEN F(0)
    ELSE LET k == CHOOSE x \in S : TRUE
         IN  FAdd(f[k], SumOver(f, S \ {k}))

CleanedOk == Cleaned /\ ret.err = "none"

\* the input rows a returned row comes from: dates are unique in a file
SourceRows(i) ==
    {j \in 1..Len(df_in.rows) : df_in.rows[j]["date"] = ret.tbl.rows[i]["date"]}

\* C16: in the table validate_and_clean_data returns every financial column
\* present is >= 0 in every row, and a value that was already >= 0 is the
\* input value.
C16_FinancialNonNegative ==
    CleanedOk =>
      \A i \in 1..Len(ret.tbl.rows) : \A c \in financial_columns \cap ret.tbl.cols :
         /\ IsFinite(ret.tbl.rows[i][c])
         /\ ret.tbl.rows[i][c].n >= 0
         /\ \A j \in SourceRows(i) :
               (IsFinite(df_in.rows[j][c]) /\ df_in.rows[j][c].n >= 0)
                  => ret.tbl.rows[i][c] = df_in.rows[j][c]

\* a returned row whose negative spend became 0 next to a kept profit of 2
C16_Witness ==
    /\ CleanedOk
    /\ "gross_profit" \in df_in.cols
    /\ \E i \in 1..Len(ret.tbl.rows) : \E j \in SourceRows(i) :
          /\ df_in.rows[j]["spend"] = F(-1)
          /\ ret.tbl.rows[i]["spend"] = F(0)
    /\ \E k \in 1..Len(ret.tbl.rows) : \E l \in SourceRows(k) :
          /\ df_in.rows[l]["gross_profit"] = F(2)
          /\ ret.tbl.rows[k]["gross_profit"] = F(2)

\* C17: the returned table has no missing value in a numeric column: a
\* missing input value is 0, and a value that was present is the input
\* value, raised to 0 when it is a negative value of a financial column.
C17_NoMissingValues ==
    CleanedOk =>
      \A i \in 1..Len(ret.tbl.rows) :
         /\ \A c \in ret.tbl.cols : ~IsNaN(ret.tbl.rows[i][c])
         /\ \A j \in SourceRows(i) : \A c \in df_in.cols \ {"date"} :
               LET old == df_in.rows[j][c]
                   new == ret.tbl.rows[i][c]
               IN  /\ IsNaN(old) => new = F(0)
                   /\ (~IsNaN(old) /\ c \notin financial_columns) => new = old
                   /\ (~IsNaN(old) /\ c \in financial_columns)
                         => new = IF old.n < 0 THEN F(0) ELSE old

\* a returned row whose click count was missing, now 0 next to kept orders
C17_Witness ==
    /\ CleanedOk
    /\ \E i \in 1..Len(ret.tbl.rows) : \E j \in SourceRows(i) :
          /\ IsNaN(df_in.rows[j]["clicks"])
          /\ ret.tbl.rows[i]["clicks"] = F(0)
          /\ df_in.rows[j]["orders"] = F(-1)
          /\ ret.tbl.rows[i]["orders"] = F(-1)

\* abs(stored - attributed / spend) > 0.1 in one cleaned row, the quotient
\* being 0 unless spend > 0
RowMismatch(row) ==
    IF FGt(row["spend"], F(0))
    THEN FGt(FAbs(FSub(FMul(row["marketing_roas"], row["spend"]),
                       row["attributed_revenue"])),
             FMul(Q(1, 10), row["spend"]))
    ELSE FGt(FAbs(row["marketing_roas"]), Q(1, 10))

StoredRoasDiffers ==
    /\ "marketing_roas" \in df.cols
    /\ \E i \in 1..Len(df.rows) : RowMismatch(df.rows[i])

\* the scaled deviation of a value of a column: n * x[j] - sum(x)
Scaled(x, j, total) == FSub(FMul(F(Len(x)), x[j]), total)

\* abs(x[i] - mean) <= 3 * s with s the sample standard deviation, which no
\* value satisfies when the column has fewer than two values; spread is the
\* sum of the squared scaled deviations
KeptBySample(x, i, total, spread) ==
    /\ Len(x) >= 2
    /\ FLe(FMul(F(Len(x) - 1), Sq(Scaled(x, i, total))), FMul(F(9), spread))

\* not abs(x[i] - mean) > 3 * sigma with sigma the population deviation
KeptByPopulation(x, i, total, spread) ==
    ~FGt(FMul(F(Len(x)), Sq(Scaled(x, i, total))), FMul(F(9), spread))

\* one pass of the filter over a column, when the column is present
OnePass(rows, cols, c, sample) ==
    IF c \notin cols THEN rows
    ELSE LET x == [i \in 1..Len(rows) |-> rows[i][c]]
             total == SumOver(x, 1..Len(x))
             spread == SumOver([j \in 1..Len(x) |-> Sq(Scaled(x, j, total))], 1..Len(x))
         IN  SelectRows(rows, [i \in 1..Len(rows) |->
                                 IF sample THEN KeptBySample(x, i, total, spread)
                                 ELSE KeptByPopulation(x, i, total, spread)])

\* the passes for ROAS, revenue and orders, each over what the last one left
ThreePasses(rows, cols, sample) ==
    OnePass(OnePass(OnePass(rows, cols, "marketing_roas", sample),
                    cols, "total_revenue", sample), cols, "orders", sample)

\* C18: the ROAS cross-check is advisory: with a stored ROAS off by more
\* than 0.1 or not, validate_and_clean_data raises nothing and returns the
\* rows the outlier passes leave; the mismatch only sets the warning.
C18_RoasCheckAdvisory ==
    (Cleaned /\ {"spend", "attributed_revenue"} \subseteq df_in.cols) =>
      /\ ret.err = "none"
      /\ ret.warned = StoredRoasDiffers
      /\ ret.tbl.cols = df.cols
      /\ ret.tbl.rows = ThreePasses(df.rows, df.cols, TRUE)

\* a mismatch was logged and both rows came back
C18_Witness ==
    /\ CleanedOk
    /\ ret.warned
    /\ Len(df_in.rows) = 2
    /\ Len(ret.tbl.rows) = 2
    /\ \E i \in 1..2 : ret.tbl.rows[i]["marketing_roas"] = F(-1)
                         /\ ret.tbl.rows[i]["calculated_marketing_roas"] = F(1)

\* C19 as stated: the outlier passes drop the rows more than three population
\* standard deviations from the mean.
C19_PopulationStd ==
    CleanedOk => ret.tbl.rows = ThreePasses(df.rows, df.cols, FALSE)

\* C19: for ROAS, revenue and orders in that order, validate_and_clean_data
\* keeps exactly the rows with abs(value - mean) <= 3 * s, mean and the
\* sample standard deviation s (n - 1 in the divisor) taken over the table
\* the earlier passes left; a pass over a one-row table keeps nothing.
C19_SampleStd ==
    CleanedOk => ret.tbl.rows = ThreePasses(df.rows, df.cols, TRUE)

\* the one day whose stored ROAS is 4 among ten days of 0 is dropped
C19_Witness ==
    /\ CleanedOk
    /\ Len(df.rows) = OutlierRows
    /\ Len(ret.tbl.rows) = OutlierRows - 1
    /\ \E i \in 1..OutlierRows : df.rows[i]["marketing_roas"] = F(4)
    /\ \A i \in 1..(OutlierRows - 1) : ret.tbl.rows[i]["marketing_roas"] = F(0)

\* eleven days, nine of revenue 0, one of 1 and one of 4: all are returned,
\* where a population deviation would drop the day of revenue 4
C19_KeptBySampleOnly ==
    /\ CleanedOk
    /\ Len(ret.tbl.rows) = OutlierRows
    /\ Len(ThreePasses(df.rows, df.cols, FALSE)) < OutlierRows

\* the column is absent or holds one value on every row
ConstantColumn(t, c) ==
    Has(t, c) => \A i, j \in 1..Len(t.rows) : t.rows[i][c] = t.rows[j][c]

\* C26: validate_and_clean_data removes no row from a non-empty table whose
\* rows all have the same marketing_roas, total_revenue and orders, whatever
\* the number of rows, a single-row table included
C26_ConstantColumnsKeepRows ==
    (/\ CleanedOk
     /\ Len(df_in.rows) >= 1
     /\ \A c \in {"marketing_roas", "total_revenue", "orders"} : ConstantColumn(df_in, c))
        => Len(ret.tbl.rows) = Len(df_in.rows)

\* what does hold: the same from two rows on
C26_FromTwoRows ==
    (/\ CleanedOk
     /\ Len(df_in.rows) >= 2
     /\ \A c \in {"marketing_roas", "total_revenue", "orders"} : ConstantColumn(df_in, c))
        => Len(ret.tbl.rows) = Len(df_in.rows)

\* a single row is removed: its column has no sample standard deviation
C26_SingleRowRemoved ==
    (CleanedOk /\ Len(df_in.rows) = 1) => Len(ret.tbl.rows) = 0

\* C27: a table of two to ten rows never loses a row to the three
\* three-standard-deviation filters; a row is rejected as an outlier only
\* from eleven rows on
C27_NoOutlierBelowEleven ==
    CleanedOk =>
        /\ Len(df_in.rows) \in 2..10 => Len(ret.tbl.rows) = Len(df_in.rows)
        /\ (Len(df_in.rows) >= 2 /\ Len(ret.tbl.rows) < Len(df_in.rows))
               => Len(df_in.rows) >= 11
        /\ \A c \in {"marketing_roas", "total_revenue", "orders"} \cap df.cols :
              (\E i \in 1..Len(df.rows) : detect_outliers(Col(df, c))[i])
                 => Len(df.rows) >= 11

\* ten days, one of stored ROAS 4 and revenue 4 among days of 0: all ten
\* come back
C27_Witness ==
    /\ CleanedOk
    /\ Len(df_in.rows) = 10
    /\ Len(ret.tbl.rows) = 10
    /\ \E i \in 1..10 : df_in.rows[i]["marketing_roas"] = F(4)
    /\ \E i \in 1..10 : df_in.rows[i]["total_revenue"] = F(4)
    /\ \E i \in 1..10 : df_in.rows[i]["marketing_roas"] = F(0)

\* the same spike among eleven days is rejected, and detect_outliers flags it
C27_RejectedAtEleven ==
    /\ CleanedOk
    /\ Len(df_in.rows) = 11
    /\ Len(ret.tbl.rows) < 11
    /\ \E i \in 1..11 : detect_outliers(Col(df, "marketing_roas"))[i]

----------------------------------------------------------------------------
(* Properties of the attribution models *)

AttributionOps == {"calculate_attribution_model", "calculate_attribution_models_smart"}

Attributed == pc = "done" /\ ret.op \in AttributionOps /\ ret.err = "none"

\* the revenue total and the platform spend total of the table handed in
TableRevenue == Sum(df_in, "total revenue")

TablePlatformSpend ==
    SumOver([p \in PlatformSet |-> IF Has(df_in, SpendCol(p))
                                   THEN Sum(df_in, SpendCol(p)) ELSE F(0)],
            PlatformSet)

\* C2: when the platform spend total and the revenue total are positive,
\* the spend-based allocations of either attribution function add up to the
\* revenue total.
C2_SpendBasedSum ==
    (Attributed /\ FGt(TablePlatformSpend, F(0)) /\ FGt(TableRevenue, F(0))) =>
        SumOver(ret.spend_based, DOMAIN ret.spend_based) = TableRevenue

\* the smart variant on a table without google_spend, with unequal shares
C2_Witness ==
    /\ Attributed
    /\ ret.op = "calculate_attribution_models_smart"
    /\ ~Has(df_in, "google_spend")
    /\ FGt(TablePlatformSpend, F(0))
    /\ TableRevenue = F(5)
    /\ ret.spend_based["Facebook"] = Q(5, 2)
    /\ ret.spend_based["Google"] = F(0)

\* C3: the linear model gives each of the three platforms a third of the
\* revenue total; the three shares add up to the revenue total.
C3_LinearThirds ==
    Attributed =>
        /\ Cardinality(DOMAIN ret.linear) = 3
        /\ \A k \in DOMAIN ret.linear : ret.linear[k] = FDiv(TableRevenue, F(3))
        /\ SumOver(ret.linear, DOMAIN ret.linear) = TableRevenue

\* a revenue total that 3 does not divide, with unequal spends and clicks
C3_Witness ==
    /\ Attributed
    /\ ret.op = "calculate_attribution_model"
    /\ TableRevenue = F(5)
    /\ ret.linear["facebook"] = Q(5, 3)
    /\ ret.last_click["google"] # ret.last_click["facebook"]
    /\ ret.spend_based["google"] # ret.spend_based["facebook"]

ZeroAllocation(model, key) == key \in DOMAIN model => model[key] \in {F(0), <<>>}

\* the key of platform p in a model of either function
ModelKeys(p) == {p, Title(p), IF p = "tiktok" THEN "TikTok" ELSE Title(p)}

\* C9: a platform whose attributed-revenue or spend column is absent gets 0
\* under every model, and the attribution function raises no error.
C9_AbsentPlatformZero ==
    (pc = "done" /\ ret.op \in AttributionOps) =>
        /\ ret.err = "none"
        /\ \A p \in PlatformSet :
              (~Has(df_in, RevenueCol(p)) \/ ~Has(df_in, SpendCol(p))) =>
                \A key \in ModelKeys(p) :
                    /\ ZeroAllocation(ret.last_click, key)
                    /\ ZeroAllocation(ret.spend_based, key)
                    /\ ZeroAllocation(ret.linear, key)
                    /\ (ret.op = "calculate_attribution_models_smart"
                          => ZeroAllocation(ret.time_decay, key))

\* the Facebook column the time-decay model weights, in date order
DecayColumn == Col(SortValues(df_in), "facebook_attributed revenue")

SmartDone ==
    /\ pc = "done"
    /\ ret.op = "calculate_attribution_models_smart"
    /\ ret.err = "none"
    /\ Has(df_in, "facebook_attributed revenue")

\* whether a value contributes a term c * exp(e) to the weighted sum
Weighted(v) == ~IsNaN(v) /\ v # F(0)

\* C23: the time-decay weights of a date-sorted table of n >= 1 rows are exp
\* of n evenly spaced exponents: strictly increasing, exponent -2 for the
\* earliest row and 0 for the most recent one.
C23_TimeDecayWeights ==
    SmartDone =>
      LET terms == ret.time_decay["Facebook"]
          n == Len(DecayColumn)
      IN  /\ \A k \in 1..(Len(terms) - 1) : FLt(terms[k].e, terms[k + 1].e)
          /\ (n >= 1 /\ Weighted(DecayColumn[1])) => terms[1].e = F(-2)
          /\ (n >= 1 /\ Weighted(DecayColumn[n])) => terms[Len(terms)].e = F(0)

----------------------------------------------------------------------------
(* Properties of the KPI aggregation *)

KpiOps == {"calculate_kpis", "overview_calculate_kpis", "dashboard_calculate_kpis"}

KpisDone == pc = "done" /\ ret.op \in KpiOps /\ ret.err = "none"

\* revenue sums of the two halves of the table handed in, sorted by date
FirstHalfRevenue == Sum(FirstHalf(df_in), "total revenue")

SecondHalfRevenue == Sum(SecondHalf(df_in), "total revenue")

\* C5: on a table of even length whose second half (by date) has twice the
\* positive revenue sum of its first half, revenue_growth is 100.
C5_DoubledRevenue ==
    (/\ KpisDone
     /\ Len(df_in.rows) % 2 = 0
     /\ FGt(FirstHalfRevenue, F(0))
     /\ SecondHalfRevenue = FMul(F(2), FirstHalfRevenue)) =>
        ret.revenue_growth = F(100)

\* two rows in descending file order: the later day, listed first, has twice
\* the revenue of the earlier day
C5_Witness ==
    /\ KpisDone
    /\ ret.op = "calculate_kpis"
    /\ Len(df_in.rows) = 2
    /\ df_in.rows[1]["date"] = F(2)
    /\ df_in.rows[1]["total revenue"] = F(2)
    /\ FirstHalfRevenue = F(1)
    /\ SecondHalfRevenue = F(2)
    /\ ret.revenue_growth = F(100)

\* the sum of the present values of a column over a sequence of rows
PresentSum(rows, c) ==
    SumOver([i \in 1..Len(rows) |-> IF IsNaN(rows[i][c]) THEN F(0) ELSE rows[i][c]],
            1..Len(rows))

\* the growth KPIs with the column each is taken over
GrowthKpis == {<<"revenue_growth", "total revenue">>, <<"order_growth", "# of orders">>}

SplitOps == {"calculate_kpis", "calculate_revenue_metrics"}

\* C20: calculate_kpis and calculate_revenue_metrics split the date-sorted
\* table at len // 2: the first half has floor(n/2) rows, the second
\* ceil(n/2), no date of the first is later than a date of the second, and
\* the two halves together hold every row of the table exactly once.
C20_GrowthSplit ==
    (pc = "done" /\ ret.op \in SplitOps /\ ret.err = "none" /\ Has(df_in, "date")) =>
      LET n == Len(df_in.rows)
          first == FirstHalf(df_in).rows
          second == SecondHalf(df_in).rows
      IN  /\ Len(first) = n \div 2
          /\ Len(second) = n - (n \div 2)
          /\ 2 * Len(second) \in {n, n + 1}
          /\ \A i \in 1..Len(first) : \A j \in 1..Len(second) :
                first[i]["date"].n <= second[j]["date"].n
          /\ \A k \in 1..n :
                Occurrences(first, df_in.cols, df_in.rows[k])
                  + Occurrences(second, df_in.cols, df_in.rows[k])
                  = Occurrences(df_in.rows, df_in.cols, df_in.rows[k])

\* three days given latest first: the earliest day alone is the first half
C20_Witness ==
    /\ pc = "done"
    /\ ret.op = "calculate_revenue_metrics"
    /\ ret.err = "none"
    /\ Len(df_in.rows) = 3
    /\ df_in.rows[1]["date"] = F(3)
    /\ FirstHalf(df_in).rows = <<df_in.rows[3]>>
    /\ SecondHalf(df_in).rows = <<df_in.rows[2], df_in.rows[1]>>
    /\ ret.growth_rate = F(100)

\* the orders of n rows that exchange two of them; every order is a
\* succession of such exchanges
RowOrders(n) ==
    {[i \in 1..n |-> IF i = a THEN b ELSE IF i = b THEN a ELSE i] :
        a \in 1..n, b \in 1..n}

\* the same rows in the order f
Reordered(t, f) ==
    [cols |-> t.cols, rows |-> [i \in 1..Len(t.rows) |-> t.rows[f[i]]]]

TrendKpis == {"revenue_growth", "order_growth", "roas_trend", "margin_trend"}

MetricsKpisDone == pc = "done" /\ ret.op = "calculate_kpis" /\ ret.err = "none"

\* C28: revenue_growth, order_growth, roas_trend and margin_trend of
\* calculate_kpis depend on the multiset of rows only, not on their order in
\* the file, duplicate dates that straddle the midpoint included
C28_OrderIndependent ==
    MetricsKpisDone =>
        \A f \in RowOrders(Len(df_in.rows)) : \A k \in TrendKpis :
            calculate_kpis(Reordered(df_in, f))[k] = ret[k]

\* what does hold: the same when no two rows share a date
C28_DistinctDates ==
    (/\ MetricsKpisDone
     /\ \A i, j \in 1..Len(df_in.rows) :
            df_in.rows[i]["date"] = df_in.rows[j]["date"] => i = j) =>
        \A f \in RowOrders(Len(df_in.rows)) : \A k \in TrendKpis :
            calculate_kpis(Reordered(df_in, f))[k] = ret[k]

\* C29: avg_aov, cac and ltv_cac_ratio of calculate_kpis are finite, and 0
\* when their denominator is 0; ltv_cac_ratio is 0 when the total spend is 0
\* and the new customers are positive
C29_RatiosFinite ==
    MetricsKpisDone =>
        /\ IsFinite(ret.avg_aov)
        /\ IsFinite(ret.cac)
        /\ IsFinite(ret.ltv_cac_ratio)
        /\ ret.total_orders = F(0) => ret.avg_aov = F(0)
        /\ ret.total_new_customers = F(0) => ret.cac = F(0) /\ ret.ltv_cac_ratio = F(0)
        /\ (ret.total_spend = F(0) /\ FGt(ret.total_new_customers, F(0)))
              => ret.ltv_cac_ratio = F(0)

\* what does hold: avg_aov and cac are finite and 0 on a zero denominator,
\* and ltv_cac_ratio is finite unless the total spend is 0 while the new
\* customers are positive
C29_ExceptZeroSpend ==
    MetricsKpisDone =>
        /\ IsFinite(ret.avg_aov)
        /\ IsFinite(ret.cac)
        /\ ret.total_orders = F(0) => ret.avg_aov = F(0)
        /\ ret.total_new_customers = F(0) => ret.cac = F(0) /\ ret.ltv_cac_ratio = F(0)
        /\ ~IsFinite(ret.ltv_cac_ratio)
              <=> (ret.total_spend = F(0) /\ FGt(ret.total_new_customers, F(0)))

\* no entry of the table is missing
NoMissingValues(t) ==
    \A i \in 1..Len(t.rows) : \A c \in t.cols : ~IsNaN(t.rows[i][c])

\* C30: roas_trend and margin_trend of calculate_kpis are finite for every
\* non-empty table with no missing values, the one-row table with its empty
\* first half included
C30_TrendsFinite ==
    (/\ pc = "done"
     /\ ret.op \in {"calculate_kpis", "overview_calculate_kpis"}
     /\ ret.err = "none"
     /\ Len(df_in.rows) >= 1
     /\ NoMissingValues(df_in)) =>
        IsFinite(ret.roas_trend) /\ IsFinite(ret.margin_trend)

\* what does hold: the same from two rows on, and NaN for one row
C30_FromTwoRows ==
    (/\ pc = "done"
     /\ ret.op \in {"calculate_kpis", "overview_calculate_kpis"}
     /\ ret.err = "none"
     /\ NoMissingValues(df_in)) =>
        /\ Len(df_in.rows) >= 2 => IsFinite(ret.roas_trend) /\ IsFinite(ret.margin_trend)
        /\ Len(df_in.rows) = 1 => IsNaN(ret.roas_trend) /\ IsNaN(ret.margin_trend)

----------------------------------------------------------------------------
(* Properties of the metrics calculator *)

CalculatorDone(op) == pc = "done" /\ ret.op = op

\* the entry of a platform in either platform-metrics result
Entry(platform) ==
    IF ret.op = "calculate_platform_metrics" THEN ret.metrics[platform]
    ELSE ret.metrics[Lower(platform)]

\* the metrics of a platform that depend on a column that is absent are 0
AbsentColumnsZero(platform) ==
    LET p == Lower(platform)
        e == Entry(platform)
    IN  /\ ~Has(df_in, SpendCol(p)) => e.roas = F(0) /\ e.cpc = F(0) /\ e.cpm = F(0)
        /\ ~Has(df_in, RevenueCol(p)) => e.roas = F(0)
        /\ ~Has(df_in, ClicksCol(p)) => e.ctr = F(0) /\ e.cpc = F(0)
        /\ ~Has(df_in, ImpressionCol(p)) => e.ctr = F(0) /\ e.cpm = F(0)

\* C12: on a table lacking some platform's spend, attributed-revenue, click
\* or impression column, calculate_platform_metrics raises nothing and returns
\* an entry for that platform whose dependent metrics are all 0.
C12_MissingPlatformColumns ==
    (CalculatorDone("calculate_platform_metrics")
       \/ CalculatorDone("marketing_calculate_platform_metrics")) =>
      /\ ret.err = "none"
      /\ \A platform \in PlatformNames : AbsentColumnsZero(platform)

\* a share in percent: 0 on a zero whole, 100 * part / whole on a positive one
IsShare(share, part, whole) ==
    /\ whole = F(0) => share = F(0)
    /\ FGt(whole, F(0)) => share = FDiv(FMul(F(100), part), whole)

C13_ProcessedTableAccepted == pc = "reported" => ret.err = "none"

\* the ratio columns of calculate_daily_performance_metrics with their
\* denominators, for the column names of the file as read
DailyRatios ==
    {<<"daily_roas", "spend">>, <<"daily_aov", "# of orders">>,
     <<"daily_cac", "new customers">>, <<"daily_conversion_rate", "clicks">>,
     <<"daily_ctr", "impression">>}

\* C14: every per-row ratio of calculate_daily_performance_metrics is exactly
\* 0 in a row whose denominator is 0, whatever the numerator.
C14_DailyZeroDenominator ==
    (CalculatorDone("calculate_daily_performance_metrics") /\ ret.err = "none") =>
      \A i \in 1..Len(ret.tbl.rows) : \A r \in DailyRatios :
         ret.tbl.rows[i][r[2]] = F(0) => ret.tbl.rows[i][r[1]] = F(0)

ReadOnlyOps ==
    {"calculate_kpis", "calculate_cohort_metrics", "calculate_seasonality_metrics",
     "calculate_daily_performance_metrics"}

\* C15: after calculate_kpis, calculate_cohort_metrics,
\* calculate_seasonality_metrics or calculate_daily_performance_metrics
\* returns, the caller's table has the columns and cell values it had.
C15_CallerTableUnchanged ==
    (pc = "done" /\ ret.op \in ReadOnlyOps /\ ret.err = "none") => df = df_in

----------------------------------------------------------------------------
(* Properties of the loader *)

\* the record of the load_data call, also once main has gone on
Loader == IF ret.op = "load_data" THEN ret ELSE ret.loaded

\* C24: load_data reads the primary path first and the one fallback path
\* only when the primary is not found; it returns the table of the first
\* path that has a file; only with both paths missing does it show a message
\* and return no table, and main then computes nothing.
C24_LoaderFallback ==
    LET first == PrimaryPath(Loader.page)
        second == FallbackPath(Loader.page)
    IN  /\ Loader.tried \in {<<>>, <<first>>, <<first, second>>}
        /\ Len(Loader.tried) = 2 => Loader.files[first] = Missing
        /\ pc \in {"returned", "computed"} =>
              /\ df # NoTable
              /\ df = Loader.files[Loader.tried[Len(Loader.tried)]]
              /\ Loader.files[first] # Missing => df = Loader.files[first]
              /\ Loader.message = ""
        /\ pc \in {"failed", "stopped"} =>
              /\ Loader.files[first] = Missing
              /\ Loader.files[second] = Missing
              /\ Loader.tried = <<first, second>>
              /\ Loader.message # ""
              /\ df = NoTable
        /\ (Loader.files[first] = Missing /\ Loader.files[second] # Missing
               /\ Has(Loader.files[second], "date") /\ Len(Loader.tried) = 2) =>
              pc \in {"returned", "computed"} /\ df = Loader.files[second]
        /\ pc = "computed" => df_in = df /\ ret.result # NoTable
        /\ pc = "stopped" => ret.result = NoTable /\ df_in = NoTable

\* the primary path has no file, the fallback has a one-day file, and main
\* computed on it
C24_Witness ==
    /\ pc = "computed"
    /\ Loader.page = "Attribution_Analysis"
    /\ Loader.tried = <<ProcessedPath, RootPath>>
    /\ Loader.files[ProcessedPath] = Missing
    /\ Len(df.rows) = 1
    /\ ret.result.op = "calculate_attribution_models_smart"

\* both paths are missing: main stopped after the message
C24_WitnessStopped ==
    /\ pc = "stopped"
    /\ Loader.message = "Data file not found."
    /\ df = NoTable

----------------------------------------------------------------------------
(* Properties of the insights and recommendations *)

\* none of the column groups the four analyses look for is in the table
NoRecognisedColumn(t) ==
    /\ ~Has(t, InsightRevenueCol(t))
    /\ ~Has(t, "marketing_roas")
    /\ PerformancePlatforms(t) = <<>>
    /\ ~Has(t, "attribution_rate")

\* C25: generate_insights_and_recommendations terminates for every table and
\* returns exactly five insights and five recommendations, a table with
\* none of the recognised columns included
C25_InsightsTerminate ==
    (pc = "insights_loop")
        ~> (/\ pc = "returned"
            /\ Len(ret.insights) = 5
            /\ Len(ret.recommendations) = 5)

\* what does hold: a call that returns returns five of each, and a pass of
\* the first loop that adds nothing happens only with no recognised column
C25_ReturnsFiveOfEach ==
    pc = "returned" => Len(ret.insights) = 5 /\ Len(ret.recommendations) = 5

C25_StuckOnlyWithoutColumns ==
    /\ (pc = "insights_loop" /\ Len(ret.insights) < 5
            /\ FallbackPass(ret.insights, fallback_insights) = ret.insights)
         => NoRecognisedColumn(df)
    /\ (pc = "recommendations_loop" /\ Len(ret.recommendations) < 5)
         => FallbackPass(ret.recommendations, fallback_recommendations)
                # ret.recommendations

\* the first loop has added its four fallbacks and can add no more
C25_Stuck ==
    /\ pc = "insights_loop"
    /\ NoRecognisedColumn(df)
    /\ Len(ret.insights) = 4
    /\ FallbackPass(ret.insights, fallback_insights) = ret.insights

----------------------------------------------------------------------------
(* Properties of the trend classifier *)

Classified == pc = "done" /\ ret.op = "calculate_trend_direction"

ConstantSeries(y) == \A i \in 1..Len(y) : y[i] = y[1]

StrictlyIncreasing(y) == \A i \in 1..(Len(y) - 1) : FLt(y[i], y[i + 1])

\* C7: a constant series of length at least 2 is classified 'stable'; a
\* strictly increasing series whose slope exceeds 0.01 * mean is classified
\* 'increasing'.
C7_TrendBoundary ==
    (Classified /\ Len(ret.series) >= 2) =>
        /\ ConstantSeries(ret.series) => ret.direction = "stable"
        /\ (/\ StrictlyIncreasing(ret.series)
             /\ FGt(ret.slope, FMul(Q(1, 100), NpMean(ret.series))))
              => ret.direction = "increasing"

----------------------------------------------------------------------------
(* The end-to-end scenario *)

\* C8: on the ten-row scenario table every computation completes without
\* error; revenue totals 5000, spend 1000, spend-based allocations are
\* 3000/2000/0, last-click 3000/1500/0, linear 5000/3 each, revenue_growth 0.
C8_Scenario ==
    (pc = "done" /\ df_in = ScenarioTable /\ ret.op \in KpiOps \cup AttributionOps) =>
        /\ ret.err = "none"
        /\ ret.total_revenue = F(5000)
        /\ ret.op \in KpiOps =>
              /\ ret.total_spend = F(1000)
              /\ ret.revenue_growth = F(0)
        /\ ret.op = "calculate_attribution_model" =>
              /\ ret.spend_based = [p \in PlatformSet |->
                    CASE p = "facebook" -> F(3000) [] p = "google" -> F(2000)
                      [] OTHER -> F(0)]
              /\ ret.last_click = [p \in PlatformSet |->
                    CASE p = "facebook" -> F(3000) [] p = "google" -> F(1500)
                      [] OTHER -> F(0)]
              /\ ret.linear = [p \in PlatformSet |-> Q(5000, 3)]

\* the same expectations hold once the table also carries the other columns
\* the KPI functions read
ScenarioWithKpiColumns ==
    (pc = "done" /\ df_in = FullScenarioTable /\ ret.op \in KpiOps \cup AttributionOps) =>
        /\ ret.err = "none"
        /\ ret.total_revenue = F(5000)
        /\ ret.op \in KpiOps =>
              /\ ret.total_spend = F(1000)
              /\ ret.revenue_growth = F(0)
        /\ ret.op = "calculate_attribution_model" =>
              /\ ret.spend_based["facebook"] = F(3000)
              /\ ret.spend_based["google"] = F(2000)
              /\ ret.spend_based["tiktok"] = F(0)
              /\ ret.last_click["facebook"] = F(3000)
              /\ ret.last_click["google"] = F(1500)
              /\ ret.last_click["tiktok"] = F(0)
              /\ ret.linear["facebook"] = Q(5000, 3)

====
